---- MODULE Spec2Model ----
(***************************************************************************)
(* Subscription reconciliation of the Elevate music backend: the Stripe    *)
(* webhook handler, the subscription endpoints and the invoice side        *)
(* effect, over one local user and the provider's subscriptions of that    *)
(* user's customer.                                                        *)
(*                                                                         *)
(* Time.  The provider's timestamps (current_period_end, period_end) are   *)
(* whole numbers; the source counts them in seconds, the model counts them *)
(* in days so that the values fit TLC's integers.  A JavaScript Date is    *)
(* the provider number times MsPerSec, as in new Date(x * 1000), and one   *)
(* day of the fallback period is therefore MsPerSec Date units.            *)
(***************************************************************************)
EXTENDS Integers, Sequences, FiniteSets, TLC

\* ---------------------------------------------------------------- bounds
\* the clock runs from day 1 to day MaxNow
MaxNow == 2
\* subscriptions the provider creates for the customer
MaxSubs == 1
\* the same, where the create endpoint is called again (SpecCheckout)
MaxCheckouts == 2
\* successful payment occurrences at the provider
MaxPayments == 1
\* other provider-side transitions (failed payment, deletion)
MaxProvSteps == 1
\* invoice side effects started (records created or still in flight)
MaxInvoices == 2
\* requests in flight at once (SpecRace)
MaxRequests == 2
\* days a period end may lie ahead of the first day (SpecDetails)
MaxAhead == 9
\* rows of the subscription plans table (SpecPlans)
MaxPlans == 3

\* ------------------------------------------------------ program constants
\* null / undefined / a field the provider does not supply (all falsy)
Absent == 0
\* new Date(x * 1000)
MsPerSec == 1000
\* validityDays of a monthly and of a yearly plan
MonthDays == 30
YearDays == 365
\* remainingDays above which validityStatus is good, and above which it is
\* warning
GoodAbove == 7
WarningAbove == 3

ProviderStatuses == {"incomplete", "trialing", "active", "past_due", "canceled"}
Intervals == {"month", "year"}
\* no payment reference (charge.invoice / paymentIntent.invoice not set)
NoRef == <<>>
\* the stored user.subscription when it is null or {}
NoSub ==
    [id |-> Absent, status |-> "none", currentPeriodEnd |-> Absent,
     interval |-> "none", cancelAtPeriodEnd |-> FALSE, paymentDate |-> Absent]
NoEvent ==
    [type |-> "none", sub |-> Absent, status |-> "none",
     current_period_end |-> Absent, interval |-> "none",
     cancel_at_period_end |-> FALSE, id |-> NoRef, invoice |-> NoRef,
     meta |-> FALSE]
\* no handler is in its wait
NoWait ==
    [op |-> "none", pc |-> "idle", rechecks |-> 0,
     held |-> [status |-> "none", current_period_end |-> Absent, interval |-> "none",
               cancel_at_period_end |-> FALSE]]
\* what the status field of an answer reads when the body has no status
Unreported == "unreported"
\* no answer: the step was not a request, or the request was left unanswered
NoResponse ==
    [op |-> "none", verified |-> TRUE, code |-> Absent, body |-> "none",
     status |-> Unreported, isActive |-> FALSE, currentPeriodEnd |-> Absent]

VARIABLES
    stripe,        \* the module-level provider client is initialised
    endpoint,      \* the provider has the webhook endpoint registered
    now,           \* the clock, in days
    customerId,    \* user.stripeCustomerId is set
    autoDebit,     \* user.autoDebit, the user's auto-debit preference
    subscription,  \* user.subscription as stored in the database
    provider,      \* the provider's subscriptions of the customer, by id
    payments,      \* successful payment occurrences at the provider so far
    provSteps,     \* other provider-side transitions so far
    emitted,       \* webhook events the provider has emitted
    delivered,     \* the emitted events answered with 200 (kept by SpecDelivery only)
    requests,      \* the requests that have loaded the record, in order of their load
                   \* (kept by SpecRace only)
    lastEvent,     \* the event of the latest delivery, NoEvent after another write
    pending,       \* Invoice.create calls in flight (handleSuccessfulPayment)
    invoices,      \* rows of the invoices table
    mailing,       \* invoiceIds of the sendInvoice calls in flight
    waiting,       \* the recovery handler suspended in its setTimeout wait
    response,      \* the answer to the latest request
    plans,         \* rows of the subscription plans table
    settingDefault \* ids of the setDefaultSubscriptionPlan calls between their two writes

vars ==
    <<stripe, autoDebit, endpoint, now, customerId, subscription, provider, payments, provSteps,
      emitted, delivered, requests, lastEvent, pending, invoices, mailing, waiting,
      response, plans, settingDefault>>

\* ------------------------------------------------------------- helpers
\* Date.now()
DateNow == now * MsPerSec

\* new Date(epoch * 1000), as it is read back from the JSON column: an
\* undefined epoch gives an Invalid Date, which JSON.stringify stores as null
DateOfEpoch(epoch) == IF epoch = Absent THEN Absent ELSE epoch * MsPerSec

\* subscription.items.data[0]?.plan?.interval || 'month'
PlanInterval(p) == IF p.interval \in Intervals THEN p.interval ELSE "month"

\* interval === 'year' ? 365 : 30
ValidityDays(interval) == IF interval = "year" THEN YearDays ELSE MonthDays

\* the period end every handler computes: the provider value when supplied,
\* else Date.now() + validityDays days
PeriodEndOrFallback(epoch, interval) ==
    IF epoch # Absent
    THEN DateOfEpoch(epoch)
    ELSE DateNow + ValidityDays(interval) * MsPerSec

IsActiveStatus(s) == s = "active" \/ s = "trialing"

\* !user || !user.subscription || !user.subscription.id
HasSubscription == subscription.id # Absent

\* stripe.subscriptions.retrieve(id)
Retrieve(id) == provider[id]


\* ------------------------------------------------- the billing provider
\* The provider is the environment: it creates subscriptions when the create
\* endpoint asks for one, takes payments, and emits a webhook event for
\* everything it does.  Payment occurrence k has the invoice <<"in", k>>, the
\* payment intent <<"pi", k>> and the charge <<"ch", k>>.

SubIds == DOMAIN provider

\* the provider posts its events only to a registered endpoint
Emit(events) == IF endpoint THEN emitted \cup events ELSE emitted
Exists(id) == id \in 1 .. Len(provider)

\* the epochs the provider may put on a period end
PeriodEnds == 1 .. MaxNow

SubscriptionEvent(type, id, p) ==
    [type |-> type, sub |-> id, status |-> p.status,
     current_period_end |-> p.current_period_end, interval |-> p.interval,
     cancel_at_period_end |-> p.cancel_at_period_end,
     id |-> NoRef, invoice |-> NoRef, meta |-> FALSE]

\* an invoice.* event: data.object is the invoice
InvoiceEvent(type, id, k, periodEnd) ==
    [type |-> type, sub |-> id, status |-> "none",
     current_period_end |-> periodEnd, interval |-> "none",
     cancel_at_period_end |-> FALSE,
     id |-> <<"in", k>>, invoice |-> NoRef, meta |-> FALSE]

\* a payment_intent.succeeded or charge.succeeded event: data.object is the
\* payment intent or the charge; meta says that metadata.subscription_id is set
PaymentEvent(type, id, ref, invoice, meta) ==
    [type |-> type, sub |-> id, status |-> "none",
     current_period_end |-> Absent, interval |-> "none",
     cancel_at_period_end |-> FALSE,
     id |-> ref, invoice |-> invoice, meta |-> meta]

\* the period that follows the one ending at `epoch`; a provider that puts no
\* period end on the subscription still puts one on the invoice
NextPeriodEnd(epoch) == IF epoch = Absent THEN now ELSE epoch + 1

\* the provider collects the payment of a subscription invoice: the
\* subscription becomes active for the next period
ProviderPaysInvoice(id) ==
    /\ Exists(id)
    /\ payments < MaxPayments
    /\ provider[id].status # "canceled"
    /\ LET k == payments + 1
           pe == NextPeriodEnd(provider[id].current_period_end)
           p == [provider[id] EXCEPT
                    !.status = "active",
                    !.current_period_end = IF @ = Absent THEN Absent ELSE pe]
       IN  /\ provider' = [provider EXCEPT ![id] = p]
           /\ payments' = k
           /\ emitted' = Emit(
                {InvoiceEvent("invoice.payment_succeeded", id, k, pe),
                 SubscriptionEvent("customer.subscription.updated", id, p),
                 PaymentEvent("payment_intent.succeeded", id, <<"pi", k>>,
                              <<"in", k>>, FALSE),
                 PaymentEvent("charge.succeeded", id, <<"ch", k>>,
                              <<"in", k>>, FALSE)})
    /\ response' = NoResponse
    /\ UNCHANGED <<stripe, plans, settingDefault, waiting, autoDebit, mailing, endpoint, now,
                   customerId,
                   subscription, provSteps,
                   delivered, requests, lastEvent, pending, invoices>>

\* the client pays the standalone payment intent that createSubscription
\* made for the subscription (metadata.subscription_id set, no invoice): the
\* provider's subscription itself is not changed by it
ProviderPaysIntent(id) ==
    /\ Exists(id)
    /\ payments < MaxPayments
    /\ LET k == payments + 1
       IN  /\ payments' = k
           /\ emitted' = Emit(
                {PaymentEvent("payment_intent.succeeded", id, <<"pi", k>>,
                              NoRef, TRUE),
                 PaymentEvent("charge.succeeded", id, <<"ch", k>>,
                              NoRef, TRUE)})
    /\ response' = NoResponse
    /\ UNCHANGED <<stripe, plans, settingDefault, waiting, autoDebit, mailing, endpoint, now,
                   customerId,
                   subscription, provider, provSteps,
                   delivered, requests, lastEvent, pending, invoices>>

\* a renewal payment fails: an active subscription becomes past_due
ProviderFailsPayment(id) ==
    /\ Exists(id)
    /\ provSteps < MaxProvSteps
    /\ provider[id].status \in {"active", "incomplete", "past_due"}
    /\ LET p == [provider[id] EXCEPT
                    !.status = IF @ = "active" THEN "past_due" ELSE @]
       IN  /\ provider' = [provider EXCEPT ![id] = p]
           /\ emitted' = Emit(
                ({InvoiceEvent("invoice.payment_failed", id, 0, Absent)} \cup
                 IF p = provider[id] THEN {}
                 ELSE {SubscriptionEvent("customer.subscription.updated", id, p)}))
    /\ provSteps' = provSteps + 1
    /\ response' = NoResponse
    /\ UNCHANGED <<stripe, plans, settingDefault, waiting, autoDebit, mailing, endpoint, now,
                   customerId,
                   subscription, payments,
                   delivered, requests, lastEvent, pending, invoices>>

\* the provider ends the subscription
ProviderDeletes(id) ==
    /\ Exists(id)
    /\ provSteps < MaxProvSteps
    /\ provider[id].status # "canceled"
    /\ LET p == [provider[id] EXCEPT !.status = "canceled"]
       IN  /\ provider' = [provider EXCEPT ![id] = p]
           /\ emitted' = Emit(
                {SubscriptionEvent("customer.subscription.deleted", id, p)})
    /\ provSteps' = provSteps + 1
    /\ response' = NoResponse
    /\ UNCHANGED <<stripe, plans, settingDefault, waiting, autoDebit, mailing, endpoint, now,
                   customerId,
                   subscription, payments,
                   delivered, requests, lastEvent, pending, invoices>>

\* time passes
Tick ==
    /\ now < MaxNow
    /\ now' = now + 1
    /\ response' = NoResponse
    /\ UNCHANGED <<stripe, plans, settingDefault, waiting, autoDebit, mailing, endpoint,
                   customerId, subscription,
                   provider, payments,
                   provSteps, emitted, delivered, requests, lastEvent, pending, invoices>>

\* ------------------------------------------------ the invoice side effect
\* generateInvoice's argument: the row that Invoice.create is asked to insert
InvoiceTask(subscriptionId, stripeInvoiceId) ==
    [subscriptionId |-> subscriptionId, stripeInvoiceId |-> stripeInvoiceId]

\* charge.invoice || charge.id, paymentIntent.invoice || paymentIntent.id
PaymentReference(e) == IF e.invoice # NoRef THEN e.invoice ELSE e.id

\* handleSuccessfulPayment(...) is called and not awaited: generateInvoice
\* has issued Invoice.create and the handler goes on
HandleSuccessfulPayment(subscriptionId, stripeInvoiceId) ==
    <<InvoiceTask(subscriptionId, stripeInvoiceId)>>

\* `INV-${Date.now()}-${random}`: a fresh invoiceId for every row
FreshInvoiceId == Cardinality(invoices) + 1

\* Invoice.create completes: the row exists (emailSent false) and sendInvoice
\* is called and not awaited; or it fails, which handleSuccessfulPayment
\* swallows
GenerateInvoice(i, created) ==
    /\ i \in 1 .. Len(pending)
    /\ invoices' =
         IF created
         THEN invoices \cup
                {[invoiceId |-> FreshInvoiceId,
                  subscriptionId |-> pending[i].subscriptionId,
                  stripeInvoiceId |-> pending[i].stripeInvoiceId,
                  status |-> "paid", emailSent |-> FALSE]}
         ELSE invoices
    /\ mailing' = IF created THEN mailing \cup {FreshInvoiceId} ELSE mailing
    /\ pending' = SubSeq(pending, 1, i - 1) \o SubSeq(pending, i + 1, Len(pending))
    /\ response' = NoResponse
    /\ UNCHANGED <<stripe, plans, settingDefault, waiting, autoDebit, endpoint, now,
                   customerId, subscription,
                   provider, payments,
                   provSteps, emitted, delivered, requests, lastEvent>>

\* the ways resend.emails.send (and generateInvoicePDF before it) may end, and
\* "unconfigured" for a service built without its API key
EmailOutcomes == {"sent", "unconfigured", "error", "throws"}

\* a sendInvoice that marks the row whatever the send did
InvoiceMarkedSent(row, outcome, saved) == [row EXCEPT !.emailSent = TRUE]

\* sendInvoiceEmail(email, invoice).success: the error result and the caught
\* exception both come back as { success: false }
SendInvoiceEmail(outcome) == outcome = "sent"

\* a sendInvoice that records the result of every send on the row
InvoiceTracksLastSend(row, outcome, saved) ==
    IF saved THEN [row EXCEPT !.emailSent = SendInvoiceEmail(outcome)] ELSE row

\* sendInvoice's effect on the row: emailSent = true and invoice.save() when
\* the result says success; a save that rejects is caught and leaves the row
InvoiceAfterSend(row, outcome, saved) ==
    IF SendInvoiceEmail(outcome) /\ saved
    THEN [row EXCEPT !.emailSent = TRUE]
    ELSE row

\* sendInvoice(invoice) of the row `id` completes
SendInvoice(id, outcome, saved) ==
    /\ id \in mailing
    /\ mailing' = mailing \ {id}
    /\ invoices' = {IF row.invoiceId = id THEN InvoiceAfterSend(row, outcome, saved)
                                          ELSE row : row \in invoices}
    /\ UNCHANGED <<stripe, plans, settingDefault, waiting, autoDebit, endpoint, now,
                   customerId, subscription, provider,
                   payments, provSteps, emitted, delivered, requests, lastEvent, pending,
                   response>>

\* --------------------------------------------------------- handleWebhook
\* User.findOne({ where: { stripeCustomerId: <the event's customer> } }): the
\* provider's events are those of this user's customer
UserFound == customerId

\* what a case of the switch leaves: the subscription to save (the stored
\* one when the case saves nothing) and the side effects it started
Handled(sub, tasks) == [subscription |-> sub, tasks |-> tasks]

\* a payment-intent case that does not look at the status it re-fetched
OnPaymentIntentSucceededAnyStatus(e, sub) ==
    IF ~e.meta THEN Handled(sub, <<>>)
    ELSE LET p == Retrieve(e.sub)
             interval == PlanInterval(p)
             currentPeriodEnd == PeriodEndOrFallback(p.current_period_end, interval)
         IN  IF UserFound
             THEN Handled([sub EXCEPT !.status = "active",
                                      !.currentPeriodEnd = currentPeriodEnd,
                                      !.paymentDate = DateNow,
                                      !.interval = interval],
                          HandleSuccessfulPayment(e.sub, PaymentReference(e)))
             ELSE Handled(sub, <<>>)

\* case 'payment_intent.succeeded'
OnPaymentIntentSucceeded(e, sub) ==
    IF ~e.meta THEN Handled(sub, <<>>)
    ELSE LET p == Retrieve(e.sub)
             interval == PlanInterval(p)
             currentPeriodEnd == PeriodEndOrFallback(p.current_period_end, interval)
         IN  IF IsActiveStatus(p.status) /\ UserFound
             THEN Handled([sub EXCEPT !.status = p.status,
                                      !.currentPeriodEnd = currentPeriodEnd,
                                      !.paymentDate = DateNow,
                                      !.interval = interval],
                          HandleSuccessfulPayment(e.sub, PaymentReference(e)))
             ELSE Handled(sub, <<>>)

\* case 'charge.succeeded' without its branch for an incomplete subscription
OnChargeSucceededActiveOnly(e, sub) ==
    IF ~e.meta THEN Handled(sub, <<>>)
    ELSE LET p == Retrieve(e.sub)
             interval == PlanInterval(p)
             currentPeriodEnd == PeriodEndOrFallback(p.current_period_end, interval)
         IN  IF ~UserFound THEN Handled(sub, <<>>)
             ELSE IF IsActiveStatus(p.status)
             THEN Handled([sub EXCEPT !.status = p.status,
                                      !.currentPeriodEnd = currentPeriodEnd,
                                      !.paymentDate = DateNow,
                                      !.interval = interval],
                          HandleSuccessfulPayment(e.sub, PaymentReference(e)))
             ELSE Handled(sub, <<>>)

\* case 'charge.succeeded'
OnChargeSucceeded(e, sub) ==
    IF ~e.meta THEN Handled(sub, <<>>)
    ELSE LET p == Retrieve(e.sub)
             interval == PlanInterval(p)
             currentPeriodEnd == PeriodEndOrFallback(p.current_period_end, interval)
         IN  IF ~UserFound THEN Handled(sub, <<>>)
             ELSE IF IsActiveStatus(p.status)
             THEN Handled([sub EXCEPT !.status = p.status,
                                      !.currentPeriodEnd = currentPeriodEnd,
                                      !.paymentDate = DateNow,
                                      !.interval = interval],
                          HandleSuccessfulPayment(e.sub, PaymentReference(e)))
             ELSE IF p.status = "incomplete"
             THEN Handled([sub EXCEPT !.status = "active",
                                      !.currentPeriodEnd = currentPeriodEnd,
                                      !.paymentDate = DateNow,
                                      !.interval = interval],
                          HandleSuccessfulPayment(e.sub, PaymentReference(e)))
             ELSE Handled(sub, <<>>)

\* case 'customer.subscription.created'
OnSubscriptionCreated(e, sub) ==
    LET interval == PlanInterval(e)
        currentPeriodEnd == PeriodEndOrFallback(e.current_period_end, interval)
    IN  IF UserFound
        THEN Handled([sub EXCEPT !.status = e.status,
                                 !.currentPeriodEnd = currentPeriodEnd,
                                 !.paymentDate = DateNow,
                                 !.interval = interval],
                     <<>>)
        ELSE Handled(sub, <<>>)

\* case 'customer.subscription.updated'
OnSubscriptionUpdated(e, sub) ==
    LET interval == PlanInterval(e)
        currentPeriodEndUpdated == PeriodEndOrFallback(e.current_period_end, interval)
    IN  IF UserFound
        THEN Handled([sub EXCEPT !.status = e.status,
                                 !.currentPeriodEnd = currentPeriodEndUpdated,
                                 !.paymentDate = DateNow,
                                 !.interval = interval,
                                 !.cancelAtPeriodEnd = e.cancel_at_period_end],
                     <<>>)
        ELSE Handled(sub, <<>>)

\* case 'customer.subscription.deleted'
OnSubscriptionDeleted(e, sub) ==
    IF UserFound
    THEN Handled([sub EXCEPT !.status = "canceled",
                             !.currentPeriodEnd = Absent],
                 <<>>)
    ELSE Handled(sub, <<>>)

\* case 'invoice.payment_succeeded'
OnInvoicePaymentSucceeded(e, sub) ==
    IF UserFound
    THEN Handled([sub EXCEPT !.status = "active",
                             !.currentPeriodEnd = DateOfEpoch(e.current_period_end),
                             !.paymentDate = DateNow],
                 HandleSuccessfulPayment(e.sub, e.id))
    ELSE Handled(sub, <<>>)

\* a failed-payment case that also ends the paid period
OnInvoicePaymentFailedEndsPeriod(e, sub) ==
    IF UserFound
    THEN Handled([sub EXCEPT !.status = "past_due", !.currentPeriodEnd = Absent], <<>>)
    ELSE Handled(sub, <<>>)

\* case 'invoice.payment_failed'
OnInvoicePaymentFailed(e, sub) ==
    IF UserFound
    THEN Handled([sub EXCEPT !.status = "past_due"], <<>>)
    ELSE Handled(sub, <<>>)

\* the case labels of the switch
RecognizedTypes ==
    {"payment_intent.succeeded", "charge.succeeded", "payment_intent.payment_failed",
     "customer.subscription.created",
     "customer.subscription.updated", "customer.subscription.deleted",
     "invoice.payment_succeeded", "invoice.payment_failed"}

\* a switch on the kind of object the event carries, not on its type
DispatchByObject(e, sub) ==
    CASE e.type = "payment_intent.succeeded" -> OnPaymentIntentSucceeded(e, sub)
      [] e.type = "charge.succeeded" -> OnChargeSucceeded(e, sub)
      [] e.type = "payment_intent.payment_failed" -> Handled(sub, <<>>)
      [] e.type = "customer.subscription.created" -> OnSubscriptionCreated(e, sub)
      [] e.type = "customer.subscription.deleted" -> OnSubscriptionDeleted(e, sub)
      [] e.type = "invoice.payment_failed" -> OnInvoicePaymentFailed(e, sub)
      [] e.id = NoRef -> OnSubscriptionUpdated(e, sub)
      [] e.id[1] = "in" -> OnInvoicePaymentSucceeded(e, sub)
      [] OTHER -> OnPaymentIntentSucceeded(e, sub)

\* switch (event.type)
Dispatch(e, sub) ==
    CASE e.type = "payment_intent.succeeded" -> OnPaymentIntentSucceeded(e, sub)
      [] e.type = "charge.succeeded" -> OnChargeSucceeded(e, sub)
      [] e.type = "payment_intent.payment_failed" -> Handled(sub, <<>>)
      [] e.type = "customer.subscription.created" -> OnSubscriptionCreated(e, sub)
      [] e.type = "customer.subscription.updated" -> OnSubscriptionUpdated(e, sub)
      [] e.type = "customer.subscription.deleted" -> OnSubscriptionDeleted(e, sub)
      [] e.type = "invoice.payment_succeeded" -> OnInvoicePaymentSucceeded(e, sub)
      [] e.type = "invoice.payment_failed" -> OnInvoicePaymentFailed(e, sub)
      [] OTHER -> Handled(sub, <<>>)

\* the awaited calls of a case: a provider lookup (retrieve), then the store
\* (findOne, save)
CallsProvider(e) ==
    e.type \in {"payment_intent.succeeded", "charge.succeeded"} /\ e.meta
CallsStore(e) ==
    \/ e.type = "payment_intent.succeeded" /\ e.meta
         /\ IsActiveStatus(Retrieve(e.sub).status)
    \/ e.type = "charge.succeeded" /\ e.meta
    \/ e.type \in {"customer.subscription.created", "customer.subscription.updated",
                   "customer.subscription.deleted", "invoice.payment_succeeded",
                   "invoice.payment_failed"}

\* an awaited call rejects inside the switch: nothing catches it
Throws(e, fault) ==
    \/ fault = "provider" /\ CallsProvider(e)
    \/ fault = "store" /\ CallsStore(e)

Answer(code, body, verified) ==
    [NoResponse EXCEPT !.op = "handleWebhook", !.verified = verified,
                       !.code = code, !.body = body]

\* handleWebhook with the signature checked only for the answer: the event
\* is dispatched whatever constructEvent says
WebhookOutcomeUnchecked(configured, verified, e, fault, unhandled, sub) ==
    IF ~configured
    THEN [response |-> Answer(500, "Stripe not configured", verified),
          subscription |-> sub, tasks |-> <<>>]
    ELSE [response |-> IF verified THEN Answer(200, "received", verified)
                       ELSE Answer(400, "Webhook verification failed", verified),
          subscription |-> Dispatch(e, sub).subscription,
          tasks |-> Dispatch(e, sub).tasks]

\* handleWebhook awaiting the invoice and its email: no answer while a side
\* effect it started is in flight
WebhookOutcomeAwaiting(configured, verified, e, fault, unhandled, sub) ==
    IF ~configured
    THEN [response |-> Answer(500, "Stripe not configured", verified),
          subscription |-> sub, tasks |-> <<>>]
    ELSE IF ~verified
    THEN [response |-> Answer(400, "Webhook verification failed", verified),
          subscription |-> sub, tasks |-> <<>>]
    ELSE IF Throws(e, fault)
    THEN [response |-> Answer(unhandled, "unhandled rejection", verified),
          subscription |-> sub, tasks |-> <<>>]
    ELSE [response |-> IF Dispatch(e, sub).tasks = <<>>
                       THEN Answer(200, "received", verified)
                       ELSE Answer(Absent, "awaiting", verified),
          subscription |-> Dispatch(e, sub).subscription,
          tasks |-> Dispatch(e, sub).tasks]

\* handleWebhook answering before its switch ran: the event is acknowledged
\* also when the save that follows rejects
WebhookOutcomeAckFirst(configured, verified, e, fault, unhandled, sub) ==
    IF ~configured
    THEN [response |-> Answer(500, "Stripe not configured", verified),
          subscription |-> sub, tasks |-> <<>>]
    ELSE IF ~verified
    THEN [response |-> Answer(400, "Webhook verification failed", verified),
          subscription |-> sub, tasks |-> <<>>]
    ELSE IF Throws(e, fault)
    THEN [response |-> Answer(200, "received", verified),
          subscription |-> sub, tasks |-> <<>>]
    ELSE [response |-> Answer(200, "received", verified),
          subscription |-> Dispatch(e, sub).subscription,
          tasks |-> Dispatch(e, sub).tasks]

\* handleWebhook(req, res): the answer, the subscription it leaves in the
\* store and the side effects it starts.  `unhandled` is what the framework
\* does with the rejected promise of the handler: no answer at all (Absent),
\* or the error middleware's 500.
WebhookOutcome(configured, verified, e, fault, unhandled, sub) ==
    IF ~configured
    THEN [response |-> Answer(500, "Stripe not configured", verified),
          subscription |-> sub, tasks |-> <<>>]
    ELSE IF ~verified
    THEN [response |-> Answer(400, "Webhook verification failed", verified),
          subscription |-> sub, tasks |-> <<>>]
    ELSE IF Throws(e, fault)
    THEN [response |-> Answer(unhandled, "unhandled rejection", verified),
          subscription |-> sub, tasks |-> <<>>]
    ELSE [response |-> Answer(200, "received", verified),
          subscription |-> Dispatch(e, sub).subscription,
          tasks |-> Dispatch(e, sub).tasks]

\* an event an outsider posts to the endpoint without the provider's signature
ForgedEvent == InvoiceEvent("invoice.payment_succeeded", 1, 1, MaxNow)

\* the records the provider may hold of a monthly subscription
ProviderRecords ==
    {[status |-> s, current_period_end |-> end, interval |-> "month",
      cancel_at_period_end |-> c] :
        s \in ProviderStatuses, end \in PeriodEnds \cup {Absent}, c \in BOOLEAN}

\* the payloads an outsider may post about the user's subscription
ForgedEvents ==
    {ForgedEvent, InvoiceEvent("invoice.payment_failed", 1, 1, MaxNow),
     PaymentEvent("charge.succeeded", 1, <<"ch", 1>>, NoRef, TRUE)}
      \cup {SubscriptionEvent(t, 1, p) :
               t \in {"customer.subscription.created", "customer.subscription.updated",
                      "customer.subscription.deleted"},
               p \in ProviderRecords}

Faults == {"none", "provider", "store"}

\* one request to the webhook endpoint; `sub` is the record its query loaded
WebhookOn(sub, e, verified, fault, unhandled) ==
    /\ e \in IF verified THEN emitted ELSE ForgedEvents
    /\ LET out == WebhookOutcome(stripe, verified, e, fault, unhandled, sub)
       IN  /\ Len(pending) + Cardinality(invoices) + Len(out.tasks) <= MaxInvoices
           /\ subscription' = out.subscription
           /\ pending' = pending \o out.tasks
           /\ response' = out.response
           /\ lastEvent' = IF out.response.code = 200 THEN e ELSE lastEvent
    /\ UNCHANGED <<stripe, plans, settingDefault, waiting, autoDebit, mailing, endpoint, now,
                   customerId, provider,
                   payments, provSteps,
                   emitted, invoices>>

\* the request when nothing else writes between its load and its save
Webhook(e, verified, fault, unhandled) ==
    WebhookOn(subscription, e, verified, fault, unhandled)

HandleWebhook(e, verified, fault, unhandled) ==
    /\ Webhook(e, verified, fault, unhandled)
    /\ UNCHANGED <<delivered, requests>>

\* ------------------------------------------------------- the endpoints
Reply(op, code, body) ==
    [NoResponse EXCEPT !.op = op, !.code = code, !.body = body]

\* the first check of every endpoint: if (!stripe) return res.status(500).  The
\* endpoints are mounted behind the protect middleware, so req.user is set.
Refused(op) == Reply(op, 500, "Stripe not configured")

\* stripe.subscriptions.create({ ..., payment_behavior: 'default_incomplete' })
NewProviderSubscription(interval, periodEnd) ==
    [status |-> "incomplete", current_period_end |-> periodEnd,
     interval |-> interval, cancel_at_period_end |-> FALSE]

\* user.subscription = { id, status, currentPeriodEnd, paymentDate,
\* validityDays, interval }: a new object, with the provider's number as it is
CreatedRecord(id, p) ==
    [id |-> id, status |-> p.status,
     currentPeriodEnd |-> p.current_period_end,
     interval |-> PlanInterval(p), cancelAtPeriodEnd |-> FALSE,
     paymentDate |-> DateNow]

CreateFaults == {"none", "customer", "create", "secret", "save"}

\* POST /subscriptions/create
CreateSubscription(price, periodEnd, fault) ==
    /\ IF ~stripe
       THEN /\ response' = Refused("createSubscription")
            /\ UNCHANGED <<customerId, subscription, provider, emitted, lastEvent>>
       ELSE IF price = "none"
       THEN /\ response' = Reply("createSubscription", 400, "Stripe price ID missing")
            /\ UNCHANGED <<customerId, subscription, provider, emitted, lastEvent>>
       ELSE IF fault = "customer"
       THEN /\ response' = Reply("createSubscription", 500, "Subscription creation failed")
            /\ UNCHANGED <<customerId, subscription, provider, emitted, lastEvent>>
       ELSE IF fault = "create"
       THEN /\ response' = Reply("createSubscription", 500, "Failed to create subscription")
            /\ customerId' = TRUE
            /\ UNCHANGED <<subscription, provider, emitted, lastEvent>>
       ELSE LET id == Len(provider) + 1
                p == NewProviderSubscription(price, periodEnd)
            IN  /\ customerId' = TRUE
                /\ provider' = Append(provider, p)
                /\ emitted' = Emit(
                     {SubscriptionEvent("customer.subscription.created", id, p)})
                /\ IF fault \in {"secret", "save"}
                   THEN /\ response' = Reply("createSubscription", 500,
                                             "Failed to create subscription")
                        /\ UNCHANGED <<subscription, lastEvent>>
                   ELSE /\ subscription' = CreatedRecord(id, p)
                        /\ lastEvent' = NoEvent
                        /\ response' = Reply("createSubscription", 200, "clientSecret")
    /\ UNCHANGED <<stripe, plans, settingDefault, waiting, autoDebit, mailing, endpoint, now,
                   payments, provSteps,
                   delivered, requests, pending, invoices>>

Faults3 == {"none", "retrieve", "update", "save"}

\* POST /subscriptions/cancel
CancelSubscription(fault) ==
    /\ IF ~stripe
       THEN /\ response' = Refused("cancelSubscription")
            /\ UNCHANGED <<subscription, provider, emitted, lastEvent>>
       ELSE IF ~HasSubscription
       THEN /\ response' = Reply("cancelSubscription", 404, "No active subscription found")
            /\ UNCHANGED <<subscription, provider, emitted, lastEvent>>
       ELSE IF fault = "retrieve"
       THEN /\ response' = Reply("cancelSubscription", 500, "Failed to cancel subscription")
            /\ UNCHANGED <<subscription, provider, emitted, lastEvent>>
       ELSE IF Retrieve(subscription.id).status = "canceled"
       THEN /\ response' = Reply("cancelSubscription", 400, "Subscription is already canceled")
            /\ UNCHANGED <<subscription, provider, emitted, lastEvent>>
       ELSE IF Retrieve(subscription.id).cancel_at_period_end
       THEN /\ response' = [Reply("cancelSubscription", 200, "already set to cancel")
                              EXCEPT !.status = Retrieve(subscription.id).status]
            /\ UNCHANGED <<subscription, provider, emitted, lastEvent>>
       ELSE IF fault = "update"
       THEN /\ response' = Reply("cancelSubscription", 500, "Failed to cancel subscription")
            /\ UNCHANGED <<subscription, provider, emitted, lastEvent>>
       ELSE LET id == subscription.id
                p == [provider[id] EXCEPT !.cancel_at_period_end = TRUE]
            IN  /\ provider' = [provider EXCEPT ![id] = p]
                /\ emitted' = Emit(
                     {SubscriptionEvent("customer.subscription.updated", id, p)})
                /\ IF fault = "save"
                   THEN /\ response' = Reply("cancelSubscription", 500,
                                             "Failed to cancel subscription")
                        /\ UNCHANGED <<subscription, lastEvent>>
                   ELSE /\ subscription' =
                             [subscription EXCEPT !.status = p.status,
                                                  !.cancelAtPeriodEnd = p.cancel_at_period_end]
                        /\ lastEvent' = NoEvent
                        /\ response' = [Reply("cancelSubscription", 200, "will be cancelled")
                                          EXCEPT !.status = p.status]
    /\ UNCHANGED <<stripe, plans, settingDefault, waiting, autoDebit, mailing, endpoint, now,
                   customerId, payments,
                   provSteps, delivered, requests,
                   pending, invoices>>

\* the status view with the expiry override read from the stored record
\* instead of the provider's
StatusViewStoredExpiry(sub, p) ==
    LET merged == IF sub.status = "active" THEN sub.status ELSE p.status
        expired ==
            /\ IsActiveStatus(merged)
            /\ sub.currentPeriodEnd # Absent
            /\ DateNow > sub.currentPeriodEnd
    IN  [status |-> IF expired THEN "expired" ELSE merged,
         isActive |-> IsActiveStatus(merged) /\ ~expired,
         currentPeriodEnd |->
            IF sub.currentPeriodEnd # Absent
            THEN sub.currentPeriodEnd \div MsPerSec
            ELSE p.current_period_end]

\* the status view with the provider's status taken whatever the stored one is
StatusViewProviderFirst(sub, p) ==
    LET merged == p.status
        expired ==
            /\ IsActiveStatus(merged)
            /\ p.current_period_end # Absent
            /\ DateNow > DateOfEpoch(p.current_period_end)
    IN  [status |-> IF expired THEN "expired" ELSE merged,
         isActive |-> IsActiveStatus(merged) /\ ~expired,
         currentPeriodEnd |->
            IF sub.currentPeriodEnd # Absent
            THEN sub.currentPeriodEnd \div MsPerSec
            ELSE p.current_period_end]

\* the merged view of getSubscriptionStatus: the stored record `sub`, the
\* provider's record `p`, the clock
StatusView(sub, p) ==
    LET databaseStatus == sub.status
        stripeStatus == p.status
        merged == IF databaseStatus = "active" THEN databaseStatus ELSE stripeStatus
        expired ==
            /\ IsActiveStatus(merged)
            /\ p.current_period_end # Absent
            /\ DateNow > DateOfEpoch(p.current_period_end)
    IN  [status |-> IF expired THEN "expired" ELSE merged,
         isActive |-> IsActiveStatus(merged) /\ ~expired,
         currentPeriodEnd |->
            IF sub.currentPeriodEnd # Absent
            THEN sub.currentPeriodEnd \div MsPerSec
            ELSE p.current_period_end]

\* a status endpoint that writes the status it derived back to the record
GetSubscriptionStatusStoring(fault) ==
    /\ IF stripe /\ HasSubscription /\ fault # "retrieve"
       THEN LET view == StatusView(subscription, Retrieve(subscription.id))
            IN  /\ response' =
                     [Reply("getSubscriptionStatus", 200, "subscription")
                        EXCEPT !.status = view.status, !.isActive = view.isActive,
                               !.currentPeriodEnd = view.currentPeriodEnd]
                /\ subscription' = [subscription EXCEPT !.status = view.status]
       ELSE /\ response' =
                 IF ~stripe THEN Refused("getSubscriptionStatus")
                 ELSE IF ~HasSubscription
                 THEN Reply("getSubscriptionStatus", 200, "subscription: null")
                 ELSE Reply("getSubscriptionStatus", 500,
                            "Failed to fetch subscription status")
            /\ UNCHANGED subscription
    /\ UNCHANGED <<stripe, plans, settingDefault, waiting, autoDebit, mailing, endpoint, now,
                   customerId,
                   provider, payments,
                   provSteps, emitted, delivered, requests, lastEvent, pending, invoices>>

\* a status endpoint that answers from the stored record alone when the
\* provider lookup fails
GetSubscriptionStatusStale(fault) ==
    /\ response' =
         IF ~stripe
         THEN Refused("getSubscriptionStatus")
         ELSE IF ~HasSubscription
         THEN Reply("getSubscriptionStatus", 200, "subscription: null")
         ELSE IF fault = "retrieve"
         THEN [Reply("getSubscriptionStatus", 200, "subscription")
                 EXCEPT !.status = subscription.status,
                        !.isActive = IsActiveStatus(subscription.status)]
         ELSE LET view == StatusView(subscription, Retrieve(subscription.id))
              IN  [Reply("getSubscriptionStatus", 200, "subscription")
                     EXCEPT !.status = view.status, !.isActive = view.isActive,
                            !.currentPeriodEnd = view.currentPeriodEnd]
    /\ UNCHANGED <<stripe, plans, settingDefault, waiting, autoDebit, mailing, endpoint, now,
                   customerId,
                   subscription, provider, payments,
                   provSteps, emitted, delivered, requests, lastEvent, pending, invoices>>

\* GET /subscriptions/status
GetSubscriptionStatus(fault) ==
    /\ response' =
         IF ~stripe
         THEN Refused("getSubscriptionStatus")
         ELSE IF ~HasSubscription
         THEN Reply("getSubscriptionStatus", 200, "subscription: null")
         ELSE IF fault = "retrieve"
         THEN Reply("getSubscriptionStatus", 500, "Failed to fetch subscription status")
         ELSE LET view == StatusView(subscription, Retrieve(subscription.id))
              IN  [Reply("getSubscriptionStatus", 200, "subscription")
                     EXCEPT !.status = view.status, !.isActive = view.isActive,
                            !.currentPeriodEnd = view.currentPeriodEnd]
    /\ UNCHANGED <<stripe, plans, settingDefault, waiting, autoDebit, mailing, endpoint, now,
                   customerId,
                   subscription, provider, payments,
                   provSteps, emitted, delivered, requests, lastEvent, pending, invoices>>

\* the record forceActivateSubscription writes, from the provider's record p
ForceActivated(sub, p) ==
    [sub EXCEPT !.status = "active",
                !.interval = PlanInterval(p),
                !.cancelAtPeriodEnd = FALSE,
                !.currentPeriodEnd =
                    PeriodEndOrFallback(p.current_period_end, PlanInterval(p)),
                !.paymentDate = DateNow]

\* a force-activate for which a failed provider update is fatal
ForceActivateStrict(sub, fault) ==
    /\ IF ~stripe
       THEN /\ response' = Refused("forceActivateSubscription")
            /\ UNCHANGED <<subscription, provider, emitted, lastEvent>>
       ELSE IF sub.id = Absent
       THEN /\ response' = Reply("forceActivateSubscription", 404, "No subscription found")
            /\ UNCHANGED <<subscription, provider, emitted, lastEvent>>
       ELSE IF fault = "retrieve" \/ (fault = "update" /\ Retrieve(sub.id).cancel_at_period_end)
       THEN /\ response' = Reply("forceActivateSubscription", 500,
                                 "Failed to force-activate subscription")
            /\ UNCHANGED <<subscription, provider, emitted, lastEvent>>
       ELSE LET id == sub.id
                p == Retrieve(id)
                cleared == [p EXCEPT !.cancel_at_period_end = FALSE]
            IN  /\ IF p.cancel_at_period_end
                   THEN /\ provider' = [provider EXCEPT ![id] = cleared]
                        /\ emitted' = Emit(
                             {SubscriptionEvent("customer.subscription.updated", id, cleared)})
                   ELSE UNCHANGED <<provider, emitted>>
                /\ IF fault = "save"
                   THEN /\ response' = Reply("forceActivateSubscription", 500,
                                             "Failed to force-activate subscription")
                        /\ UNCHANGED <<subscription, lastEvent>>
                   ELSE /\ subscription' = ForceActivated(sub, p)
                        /\ lastEvent' = NoEvent
                        /\ response' =
                             [Reply("forceActivateSubscription", 200, "force-activated")
                                EXCEPT !.status = "active", !.isActive = TRUE]
    /\ UNCHANGED <<stripe, plans, settingDefault, waiting, autoDebit, mailing, endpoint, now,
                   customerId,
                   payments, provSteps, delivered, pending, invoices>>

\* POST /subscriptions/force-activate; `sub` is the record findByPk loaded
ForceActivate(sub, fault) ==
    /\ IF ~stripe
       THEN /\ response' = Refused("forceActivateSubscription")
            /\ UNCHANGED <<subscription, provider, emitted, lastEvent>>
       ELSE IF sub.id = Absent
       THEN /\ response' = Reply("forceActivateSubscription", 404, "No subscription found")
            /\ UNCHANGED <<subscription, provider, emitted, lastEvent>>
       ELSE IF fault = "retrieve"
       THEN /\ response' = Reply("forceActivateSubscription", 500,
                                 "Failed to force-activate subscription")
            /\ UNCHANGED <<subscription, provider, emitted, lastEvent>>
       ELSE LET id == sub.id
                p == Retrieve(id)
                cleared == [p EXCEPT !.cancel_at_period_end = FALSE]
            IN  /\ IF p.cancel_at_period_end /\ fault # "update"
                   THEN /\ provider' = [provider EXCEPT ![id] = cleared]
                        /\ emitted' = Emit(
                             {SubscriptionEvent("customer.subscription.updated", id, cleared)})
                   ELSE UNCHANGED <<provider, emitted>>
                /\ IF fault = "save"
                   THEN /\ response' = Reply("forceActivateSubscription", 500,
                                             "Failed to force-activate subscription")
                        /\ UNCHANGED <<subscription, lastEvent>>
                   ELSE /\ subscription' = ForceActivated(sub, p)
                        /\ lastEvent' = NoEvent
                        /\ response' =
                             [Reply("forceActivateSubscription", 200, "force-activated")
                                EXCEPT !.status = "active", !.isActive = TRUE]
    /\ UNCHANGED <<stripe, plans, settingDefault, waiting, autoDebit, mailing, endpoint, now,
                   customerId, payments,
                   provSteps, delivered,
                   pending, invoices>>

ForceActivateSubscription(fault) ==
    /\ ForceActivate(subscription, fault)
    /\ UNCHANGED requests

\* user.subscription.status = ...; .currentPeriodEnd = new Date(x * 1000);
\* .paymentDate = new Date(): the fields confirmPayment, fixSubscriptionStatus
\* and updateSubscriptionPaymentMethod write from a provider record p.  The
\* period end is written without the fallback: none at the provider gives an
\* Invalid Date, stored as null.
Confirmed(sub, p) ==
    [sub EXCEPT !.status = p.status,
                !.currentPeriodEnd = DateOfEpoch(p.current_period_end),
                !.paymentDate = DateNow]

\* the provider activates the subscription while a handler waits (settles)
\* or leaves it as it is
AfterWait(p, settles) == IF settles THEN [p EXCEPT !.status = "active"] ELSE p

ConfirmFaults == {"none", "retrieve", "recheck", "save"}

\* POST /subscriptions/confirm.  intentSucceeded: the latest invoice's payment
\* intent has status succeeded; settles: the provider activates the
\* subscription during the handler's 2 second wait
ConfirmPayment(fault, intentSucceeded, settles) ==
    /\ IF ~stripe
       THEN /\ response' = Refused("confirmPayment")
            /\ UNCHANGED <<subscription, provider, emitted, lastEvent>>
       ELSE IF ~HasSubscription
       THEN /\ response' = Reply("confirmPayment", 404, "No subscription found")
            /\ UNCHANGED <<subscription, provider, emitted, lastEvent>>
       ELSE IF fault = "retrieve"
       THEN /\ response' = Reply("confirmPayment", 500, "Failed to confirm payment")
            /\ UNCHANGED <<subscription, provider, emitted, lastEvent>>
       ELSE LET id == subscription.id
                p == Retrieve(id)
                q == AfterWait(p, settles)
                failed == Reply("confirmPayment", 500, "Failed to confirm payment")
                notYet == [Reply("confirmPayment", 400, "Subscription is not active yet")
                             EXCEPT !.status = p.status]
                done(r) == [Reply("confirmPayment", 200,
                                  "Subscription confirmed and activated")
                              EXCEPT !.status = r.status, !.isActive = TRUE,
                                     !.currentPeriodEnd = r.current_period_end]
            IN  IF IsActiveStatus(p.status)
                THEN /\ UNCHANGED <<provider, emitted>>
                     /\ IF fault = "save"
                        THEN response' = failed /\ UNCHANGED <<subscription, lastEvent>>
                        ELSE /\ subscription' = Confirmed(subscription, p)
                             /\ lastEvent' = NoEvent
                             /\ response' = done(p)
                ELSE IF p.status = "incomplete" /\ intentSucceeded
                THEN /\ provider' = [provider EXCEPT ![id] = q]
                     /\ emitted' =
                          IF settles
                          THEN Emit({SubscriptionEvent("customer.subscription.updated",
                                                       id, q)})
                          ELSE emitted
                     /\ IF fault \in {"recheck", "save"} /\ (fault = "recheck" \/ settles)
                        THEN response' = failed /\ UNCHANGED <<subscription, lastEvent>>
                        ELSE IF IsActiveStatus(q.status)
                        THEN /\ subscription' = Confirmed(subscription, q)
                             /\ lastEvent' = NoEvent
                             /\ response' = done(q)
                        ELSE response' = notYet /\ UNCHANGED <<subscription, lastEvent>>
                ELSE /\ response' = notYet
                     /\ UNCHANGED <<subscription, provider, emitted, lastEvent>>
    /\ UNCHANGED <<stripe, plans, settingDefault, waiting, autoDebit, mailing, endpoint, now,
                   customerId, payments,
                   provSteps, delivered,
                   requests, pending, invoices>>

\* what the client sends as paymentIntentId: nothing, an intent that is not
\* ready (requires_payment_method, canceled, ...) or one the handler goes on
\* with (succeeded, processing, requires_confirmation)
Intents == {"missing", "unready", "ready"}

\* the calls of updateSubscriptionPaymentMethod that may reject: intent
\* (paymentIntents.retrieve), attach (paymentMethods.attach and the
\* customers.update tried after it), update (subscriptions.update and the
\* invoice payment tried after it), pay (subscriptions.update rejects, the
\* invoice payment tried after it succeeds), save (the first user.save),
\* recheck (subscriptions.retrieve after the wait)
UpdateFaults == {"none", "intent", "attach", "update", "pay", "save", "recheck"}

\* POST /subscriptions/update-payment-method.  settles: the provider
\* activates the subscription during the handler's 3 second wait
UpdateSubscriptionPaymentMethod(intent, fault, settles) ==
    /\ IF ~stripe
       THEN /\ response' = Refused("updateSubscriptionPaymentMethod")
            /\ UNCHANGED <<subscription, provider, emitted, lastEvent>>
       ELSE IF intent = "missing"
       THEN /\ response' = Reply("updateSubscriptionPaymentMethod", 400,
                                 "Payment intent ID is required")
            /\ UNCHANGED <<subscription, provider, emitted, lastEvent>>
       ELSE IF ~HasSubscription
       THEN /\ response' = Reply("updateSubscriptionPaymentMethod", 404,
                                 "No subscription found")
            /\ UNCHANGED <<subscription, provider, emitted, lastEvent>>
       ELSE IF fault = "intent"
       THEN /\ response' = Reply("updateSubscriptionPaymentMethod", 500,
                                 "Failed to update subscription payment method")
            /\ UNCHANGED <<subscription, provider, emitted, lastEvent>>
       ELSE IF intent = "unready"
       THEN /\ response' = Reply("updateSubscriptionPaymentMethod", 400,
                                 "Payment intent is not ready yet")
            /\ UNCHANGED <<subscription, provider, emitted, lastEvent>>
       ELSE IF fault \in {"attach", "update"}
       THEN /\ response' = Reply("updateSubscriptionPaymentMethod", 500,
                                 "Failed to update subscription payment method")
            /\ UNCHANGED <<subscription, provider, emitted, lastEvent>>
       ELSE LET id == subscription.id
                \* the subscription the provider returns: updated, or re-fetched
                \* after the invoice was paid
                p == IF fault = "pay"
                     THEN [Retrieve(id) EXCEPT !.status = "active"]
                     ELSE Retrieve(id)
                rechecked == p.status = "incomplete" /\ fault # "save"
                q == IF rechecked THEN AfterWait(p, settles) ELSE p
                final == IF rechecked /\ fault # "recheck" /\ IsActiveStatus(q.status)
                         THEN q ELSE p
                failed == Reply("updateSubscriptionPaymentMethod", 500,
                                "Failed to update subscription payment method")
            IN  /\ provider' = [provider EXCEPT ![id] = q]
                /\ emitted' = Emit({SubscriptionEvent("customer.subscription.updated",
                                                      id, p),
                                    SubscriptionEvent("customer.subscription.updated",
                                                      id, q)})
                /\ IF fault = "save"
                   THEN response' = failed /\ UNCHANGED <<subscription, lastEvent>>
                   ELSE /\ subscription' = Confirmed(subscription, final)
                        /\ lastEvent' = NoEvent
                        /\ response' =
                             IF rechecked /\ fault = "recheck"
                             THEN failed
                             ELSE [Reply("updateSubscriptionPaymentMethod", 200,
                                         "Subscription updated with payment method")
                                     EXCEPT !.status = final.status,
                                            !.isActive = IsActiveStatus(final.status),
                                            !.currentPeriodEnd = final.current_period_end]
    /\ UNCHANGED <<stripe, plans, settingDefault, waiting, autoDebit, mailing, endpoint, now,
                   customerId, payments,
                   provSteps, delivered,
                   requests, pending, invoices>>

\* fixSubscriptionStatus, a successful charge found: the provider's status if
\* it is active or trialing, else 'active'; the provider's period end or the
\* fallback
FixedByCharge(sub, p) ==
    [sub EXCEPT !.status = IF IsActiveStatus(p.status) THEN p.status ELSE "active",
                !.currentPeriodEnd =
                    PeriodEndOrFallback(p.current_period_end, PlanInterval(p)),
                !.paymentDate = DateNow,
                !.interval = PlanInterval(p)]

\* fixSubscriptionStatus, a successful payment intent found in the customer's
\* list: 'active', and Date.now() + validityDays whatever the provider's
\* period end is
FixedByIntent(sub, p) ==
    [sub EXCEPT !.status = "active",
                !.currentPeriodEnd =
                    DateNow + ValidityDays(PlanInterval(p)) * MsPerSec,
                !.paymentDate = DateNow,
                !.interval = PlanInterval(p)]

\* a rejection test that takes any payment of the customer as evidence,
\* correlated to the subscription or not
NoPaymentFoundOfCustomer(p, charge, viaInvoice, intent) ==
    ~charge /\ ~viaInvoice /\ ~IsActiveStatus(p.status) /\ payments = 0

\* fixSubscriptionStatus reaches its last return: no branch before it has
\* returned
NoPaymentFound(p, charge, viaInvoice, intent) ==
    ~charge /\ ~viaInvoice /\ ~IsActiveStatus(p.status) /\ ~intent

\* POST /subscriptions/fix-status.  What the provider returns besides the
\* subscription: charge (charges.list holds a succeeded charge correlated to
\* the subscription), invoiceIntent (the latest invoice's payment intent has
\* succeeded and has a payment method), intent (paymentIntents.list holds a
\* succeeded intent correlated to the subscription)
FixSubscriptionStatus(fault, charge, invoiceIntent, intent) ==
    /\ IF ~stripe
       THEN /\ response' = Refused("fixSubscriptionStatus")
            /\ UNCHANGED <<subscription, emitted, lastEvent>>
       ELSE IF ~HasSubscription
       THEN /\ response' = Reply("fixSubscriptionStatus", 404, "No subscription found")
            /\ UNCHANGED <<subscription, emitted, lastEvent>>
       ELSE IF fault = "retrieve"
       THEN /\ response' = Reply("fixSubscriptionStatus", 500,
                                 "Failed to fix subscription status")
            /\ UNCHANGED <<subscription, emitted, lastEvent>>
       ELSE LET id == subscription.id
                p == Retrieve(id)
                viaInvoice == ~charge /\ p.status = "incomplete" /\ invoiceIntent
                fixed ==
                    IF charge THEN FixedByCharge(subscription, p)
                    ELSE IF viaInvoice \/ IsActiveStatus(p.status)
                    THEN Confirmed(subscription, p)
                    ELSE FixedByIntent(subscription, p)
                body ==
                    IF charge
                    THEN IF IsActiveStatus(p.status)
                         THEN "Subscription is already active after successful charge"
                         ELSE "Subscription activated - payment was successful"
                    ELSE IF viaInvoice THEN "Subscription status fixed and activated"
                    ELSE IF IsActiveStatus(p.status) THEN "Subscription is already active"
                    ELSE "Subscription fixed - payment was successful"
            IN  IF NoPaymentFound(p, charge, viaInvoice, intent)
                THEN /\ response' =
                          [Reply("fixSubscriptionStatus", 400,
                                 "Subscription cannot be activated - no successful payment found")
                             EXCEPT !.status = p.status]
                     /\ UNCHANGED <<subscription, emitted, lastEvent>>
                ELSE IF viaInvoice /\ fault = "update"
                THEN /\ response' = Reply("fixSubscriptionStatus", 500,
                                          "Failed to fix subscription status")
                     /\ UNCHANGED <<subscription, emitted, lastEvent>>
                ELSE /\ emitted' =
                          IF viaInvoice
                          THEN Emit({SubscriptionEvent("customer.subscription.updated",
                                                       id, p)})
                          ELSE emitted
                     /\ IF fault = "save"
                        THEN /\ response' = Reply("fixSubscriptionStatus", 500,
                                                  "Failed to fix subscription status")
                             /\ UNCHANGED <<subscription, lastEvent>>
                        ELSE /\ subscription' = fixed
                             /\ lastEvent' = NoEvent
                             /\ response' =
                                  [Reply("fixSubscriptionStatus", 200, body)
                                     EXCEPT !.status = fixed.status,
                                            !.isActive = IsActiveStatus(fixed.status),
                                            !.currentPeriodEnd =
                                                IF charge /\ ~IsActiveStatus(p.status)
                                                THEN fixed.currentPeriodEnd \div MsPerSec
                                                ELSE p.current_period_end]
    /\ UNCHANGED <<stripe, plans, settingDefault, waiting, autoDebit, mailing, endpoint, now,
                   customerId, provider,
                   payments, provSteps,
                   delivered, requests, pending, invoices>>

\* PUT /subscriptions/resume
ResumeSubscription(fault) ==
    /\ IF ~stripe
       THEN /\ response' = Refused("resumeSubscription")
            /\ UNCHANGED <<subscription, provider, emitted, lastEvent>>
       ELSE IF ~HasSubscription
       THEN /\ response' = Reply("resumeSubscription", 404, "No subscription found")
            /\ UNCHANGED <<subscription, provider, emitted, lastEvent>>
       ELSE IF fault = "retrieve"
       THEN /\ response' = Reply("resumeSubscription", 500, "Failed to resume")
            /\ UNCHANGED <<subscription, provider, emitted, lastEvent>>
       ELSE IF ~Retrieve(subscription.id).cancel_at_period_end
       THEN /\ response' = Reply("resumeSubscription", 200, "Subscription is already active")
            /\ UNCHANGED <<subscription, provider, emitted, lastEvent>>
       ELSE IF fault = "update"
       THEN /\ response' = Reply("resumeSubscription", 500, "Failed to resume")
            /\ UNCHANGED <<subscription, provider, emitted, lastEvent>>
       ELSE LET id == subscription.id
                p == [provider[id] EXCEPT !.cancel_at_period_end = FALSE]
            IN  /\ provider' = [provider EXCEPT ![id] = p]
                /\ emitted' = Emit(
                     {SubscriptionEvent("customer.subscription.updated", id, p)})
                /\ IF fault = "save"
                   THEN /\ response' = Reply("resumeSubscription", 500, "Failed to resume")
                        /\ UNCHANGED <<subscription, lastEvent>>
                   ELSE /\ subscription' = [subscription EXCEPT !.cancelAtPeriodEnd = FALSE]
                        /\ lastEvent' = NoEvent
                        /\ response' = Reply("resumeSubscription", 200, "Subscription resumed")
    /\ UNCHANGED <<stripe, plans, settingDefault, waiting, autoDebit, mailing, endpoint, now,
                   customerId, payments,
                   provSteps, delivered,
                   requests, pending, invoices>>

\* a setAutoDebit that saves the preference before it updates the provider
SetAutoDebitSavesFirst(isBoolean, value, fault) ==
    /\ IF ~stripe
       THEN /\ response' = Refused("setAutoDebit")
            /\ UNCHANGED <<autoDebit, subscription, provider, emitted, lastEvent>>
       ELSE IF ~isBoolean
       THEN /\ response' = Reply("setAutoDebit", 400, "autoDebit must be a boolean value")
            /\ UNCHANGED <<autoDebit, subscription, provider, emitted, lastEvent>>
       ELSE IF ~HasSubscription
       THEN IF fault = "save"
            THEN /\ response' = Reply("setAutoDebit", 500,
                                      "Failed to update auto-debit preference")
                 /\ UNCHANGED <<autoDebit, subscription, provider, emitted, lastEvent>>
            ELSE /\ autoDebit' = value
                 /\ response' = Reply("setAutoDebit", 200, "Auto-debit preference updated")
                 /\ UNCHANGED <<subscription, provider, emitted, lastEvent>>
       ELSE IF fault = "update"
       THEN /\ response' = Reply("setAutoDebit", 500, "Failed to sync auto-debit with Stripe")
            /\ autoDebit' = value
            /\ UNCHANGED <<subscription, provider, emitted, lastEvent>>
       ELSE LET id == subscription.id
                p == [provider[id] EXCEPT !.cancel_at_period_end = ~value]
            IN  /\ provider' = [provider EXCEPT ![id] = p]
                /\ emitted' = Emit(
                     {SubscriptionEvent("customer.subscription.updated", id, p)})
                /\ IF fault = "save"
                   THEN /\ response' = Reply("setAutoDebit", 500,
                                             "Failed to update auto-debit preference")
                        /\ UNCHANGED <<autoDebit, subscription, lastEvent>>
                   ELSE /\ autoDebit' = value
                        /\ subscription' = [subscription EXCEPT !.cancelAtPeriodEnd = ~value]
                        /\ lastEvent' = NoEvent
                        /\ response' = Reply("setAutoDebit", 200,
                                             "Auto-debit preference updated")
    /\ UNCHANGED <<stripe, plans, settingDefault, waiting, mailing, endpoint, now, customerId,
                   payments, provSteps,
                   delivered,
                   requests, pending, invoices>>

\* PUT /subscriptions/auto-debit; req.body.autoDebit is the boolean `value`
\* when `isBoolean`, and something else when not
SetAutoDebit(isBoolean, value, fault) ==
    /\ IF ~stripe
       THEN /\ response' = Refused("setAutoDebit")
            /\ UNCHANGED <<autoDebit, subscription, provider, emitted, lastEvent>>
       ELSE IF ~isBoolean
       THEN /\ response' = Reply("setAutoDebit", 400, "autoDebit must be a boolean value")
            /\ UNCHANGED <<autoDebit, subscription, provider, emitted, lastEvent>>
       ELSE IF ~HasSubscription
       THEN IF fault = "save"
            THEN /\ response' = Reply("setAutoDebit", 500,
                                      "Failed to update auto-debit preference")
                 /\ UNCHANGED <<autoDebit, subscription, provider, emitted, lastEvent>>
            ELSE /\ autoDebit' = value
                 /\ response' = Reply("setAutoDebit", 200, "Auto-debit preference updated")
                 /\ UNCHANGED <<subscription, provider, emitted, lastEvent>>
       ELSE IF fault = "update"
       THEN /\ response' = Reply("setAutoDebit", 500, "Failed to sync auto-debit with Stripe")
            /\ UNCHANGED <<autoDebit, subscription, provider, emitted, lastEvent>>
       ELSE LET id == subscription.id
                p == [provider[id] EXCEPT !.cancel_at_period_end = ~value]
            IN  /\ provider' = [provider EXCEPT ![id] = p]
                /\ emitted' = Emit(
                     {SubscriptionEvent("customer.subscription.updated", id, p)})
                /\ IF fault = "save"
                   THEN /\ response' = Reply("setAutoDebit", 500,
                                             "Failed to update auto-debit preference")
                        /\ UNCHANGED <<autoDebit, subscription, lastEvent>>
                   ELSE /\ autoDebit' = value
                        /\ subscription' = [subscription EXCEPT !.cancelAtPeriodEnd = ~value]
                        /\ lastEvent' = NoEvent
                        /\ response' = Reply("setAutoDebit", 200,
                                             "Auto-debit preference updated")
    /\ UNCHANGED <<stripe, plans, settingDefault, waiting, mailing, endpoint, now, customerId,
                   payments, provSteps,
                   delivered,
                   requests, pending, invoices>>

\* ------------------------------------------- the handlers that wait, by step
\* confirmPayment and updateSubscriptionPaymentMethod await a timer and then
\* retrieve the subscription once more; other requests and the provider act
\* while they wait.  `held` is the subscription object the handler retrieved
\* before the wait, `rechecks` the number of times it has retrieved it again.
Suspended(op, p) == [op |-> op, pc |-> "waiting", rechecks |-> 0, held |-> p]

\* a handler that goes back to its wait while the record is still incomplete
AfterRecheckRetry(q) == IF q.status = "incomplete" THEN "waiting" ELSE "idle"

\* where the handler is after its re-check of the record q: past the if, on
\* its way to the response
AfterRecheck(q) == "idle"

\* confirmPayment reaches `await new Promise(... setTimeout(resolve, 2000))`
ConfirmWaits(fault, intentSucceeded) ==
    /\ stripe /\ HasSubscription /\ fault # "retrieve"
    /\ Retrieve(subscription.id).status = "incomplete"
    /\ intentSucceeded

\* confirmPayment up to its response, or up to its wait
ConfirmPaymentBegins(fault, intentSucceeded) ==
    /\ waiting.pc = "idle"
    /\ IF ConfirmWaits(fault, intentSucceeded)
       THEN /\ waiting' = Suspended("confirmPayment", Retrieve(subscription.id))
            /\ response' = [NoResponse EXCEPT !.op = "confirmPayment"]
            /\ UNCHANGED <<stripe, plans, settingDefault, autoDebit, mailing, endpoint, now,
                           customerId,
                           subscription, provider, payments, provSteps, emitted,
                           delivered, requests, lastEvent, pending, invoices>>
       ELSE ConfirmPayment(fault, intentSucceeded, FALSE)

\* the timer fires: one stripe.subscriptions.retrieve, then the response
ConfirmPaymentResumes(fault) ==
    /\ waiting.pc = "waiting" /\ waiting.op = "confirmPayment"
    /\ LET q == Retrieve(subscription.id)
           failed == Reply("confirmPayment", 500, "Failed to confirm payment")
           notYet == [Reply("confirmPayment", 400, "Subscription is not active yet")
                        EXCEPT !.status = waiting.held.status]
           done == [Reply("confirmPayment", 200, "Subscription confirmed and activated")
                      EXCEPT !.status = q.status, !.isActive = TRUE,
                             !.currentPeriodEnd = q.current_period_end]
       IN  /\ waiting' = [waiting EXCEPT !.rechecks = @ + 1,
                                         !.pc = IF fault = "recheck" THEN "idle"
                                                ELSE AfterRecheck(q)]
           /\ IF fault = "recheck"
              THEN response' = failed /\ UNCHANGED <<subscription, lastEvent>>
              ELSE IF waiting'.pc = "waiting"
              THEN UNCHANGED <<response, subscription, lastEvent>>
              ELSE IF ~IsActiveStatus(q.status)
              THEN response' = notYet /\ UNCHANGED <<subscription, lastEvent>>
              ELSE IF fault = "save"
              THEN response' = failed /\ UNCHANGED <<subscription, lastEvent>>
              ELSE /\ subscription' = Confirmed(subscription, q)
                   /\ lastEvent' = NoEvent
                   /\ response' = done
    /\ UNCHANGED <<stripe, plans, settingDefault, autoDebit, mailing, endpoint, now,
                   customerId, provider,
                   payments, provSteps, emitted, delivered, requests, pending, invoices>>

\* updateSubscriptionPaymentMethod reaches `setTimeout(resolve, 3000)`: the
\* subscription it updated is still incomplete and the record is saved
UpdateWaits(intent, fault) ==
    /\ stripe /\ intent = "ready" /\ HasSubscription
    /\ fault \notin {"intent", "attach", "update", "pay", "save"}
    /\ Retrieve(subscription.id).status = "incomplete"

\* updateSubscriptionPaymentMethod up to its response, or up to its wait
UpdateSubscriptionPaymentMethodBegins(intent, fault) ==
    /\ waiting.pc = "idle"
    /\ IF UpdateWaits(intent, fault)
       THEN LET id == subscription.id
                p == Retrieve(id)
            IN  /\ waiting' = Suspended("updateSubscriptionPaymentMethod", p)
                /\ response' = [NoResponse EXCEPT !.op = "updateSubscriptionPaymentMethod"]
                /\ subscription' = Confirmed(subscription, p)
                /\ lastEvent' = NoEvent
                /\ emitted' = Emit({SubscriptionEvent("customer.subscription.updated",
                                                      id, p)})
                /\ UNCHANGED <<stripe, plans, settingDefault, autoDebit, mailing, endpoint,
                               now, customerId,
                               provider, payments, provSteps, delivered, requests,
                               pending, invoices>>
       ELSE UpdateSubscriptionPaymentMethod(intent, fault, FALSE)

\* the timer fires: one stripe.subscriptions.retrieve, then the response
UpdateSubscriptionPaymentMethodResumes(fault) ==
    /\ waiting.pc = "waiting" /\ waiting.op = "updateSubscriptionPaymentMethod"
    /\ LET q == Retrieve(subscription.id)
           failed == Reply("updateSubscriptionPaymentMethod", 500,
                           "Failed to update subscription payment method")
           done(r) == [Reply("updateSubscriptionPaymentMethod", 200,
                             "Subscription updated with payment method")
                         EXCEPT !.status = r.status,
                                !.isActive = IsActiveStatus(r.status),
                                !.currentPeriodEnd = r.current_period_end]
       IN  /\ waiting' = [waiting EXCEPT !.rechecks = @ + 1,
                                         !.pc = IF fault = "recheck" THEN "idle"
                                                ELSE AfterRecheck(q)]
           /\ IF fault = "recheck"
              THEN response' = failed /\ UNCHANGED <<subscription, lastEvent>>
              ELSE IF waiting'.pc = "waiting"
              THEN UNCHANGED <<response, subscription, lastEvent>>
              ELSE IF ~IsActiveStatus(q.status)
              THEN response' = done(waiting.held) /\ UNCHANGED <<subscription, lastEvent>>
              ELSE IF fault = "save"
              THEN response' = failed /\ UNCHANGED <<subscription, lastEvent>>
              ELSE /\ subscription' = Confirmed(subscription, q)
                   /\ lastEvent' = NoEvent
                   /\ response' = done(q)
    /\ UNCHANGED <<stripe, plans, settingDefault, autoDebit, mailing, endpoint, now,
                   customerId, provider,
                   payments, provSteps, emitted, delivered, requests, pending, invoices>>

\* the provider activates the subscription while a handler waits
ProviderSettles ==
    /\ waiting.pc = "waiting"
    /\ provider[subscription.id].status = "incomplete"
    /\ provider' = [provider EXCEPT ![subscription.id] = AfterWait(@, TRUE)]
    /\ emitted' = Emit({SubscriptionEvent("customer.subscription.updated",
                                          subscription.id, provider'[subscription.id])})
    /\ UNCHANGED <<stripe, plans, settingDefault, waiting, autoDebit, mailing, endpoint, now,
                   customerId,
                   subscription, payments, provSteps, delivered, requests, lastEvent,
                   pending, invoices, response>>

\* ------------------------------------------------- getSubscriptionDetails
\* Math.ceil(a / b) for b > 0
Ceil(a, b) == -((-a) \div b)

Max(a, b) == IF a >= b THEN a ELSE b

\* Math.max(0, Math.ceil(NaN)): what remainingDays is when the provider has
\* no current_period_end and expiryDate is an Invalid Date
NaN == "NaN"

\* the countdown with the days rounded down
CountdownFloor(epoch, clock) ==
    IF epoch = Absent
    THEN [remainingDays |-> NaN, validityStatus |-> "expired"]
    ELSE LET timeDiff == DateOfEpoch(epoch) - clock
             remainingDays == Max(0, timeDiff \div MsPerSec)
         IN  [remainingDays |-> remainingDays,
              validityStatus |->
                 IF remainingDays > GoodAbove THEN "good"
                 ELSE IF remainingDays > WarningAbove THEN "warning"
                 ELSE IF remainingDays > 0 THEN "critical"
                 ELSE "expired"]

\* remainingDays and validityStatus from the provider's period end and
\* now.getTime(); every comparison with NaN is false
Countdown(epoch, clock) ==
    IF epoch = Absent
    THEN [remainingDays |-> NaN, validityStatus |-> "expired"]
    ELSE LET timeDiff == DateOfEpoch(epoch) - clock
             remainingDays == Max(0, Ceil(timeDiff, MsPerSec))
         IN  [remainingDays |-> remainingDays,
              validityStatus |->
                 IF remainingDays > GoodAbove THEN "good"
                 ELSE IF remainingDays > WarningAbove THEN "warning"
                 ELSE IF remainingDays > 0 THEN "critical"
                 ELSE "expired"]

\* the milliseconds into the day at which a request may read the clock
ClockFractions == {0, 1, MsPerSec - 1}

\* a details endpoint that copies the provider's status into the stored record
GetSubscriptionDetailsSyncing(fault, ms) ==
    /\ ms \in ClockFractions
    /\ response' =
         IF ~stripe
         THEN Refused("getSubscriptionDetails")
         ELSE IF ~HasSubscription
         THEN Reply("getSubscriptionDetails", 404, "No subscription found")
         ELSE IF fault = "retrieve"
         THEN Reply("getSubscriptionDetails", 500, "Failed to fetch subscription details")
         ELSE LET p == Retrieve(subscription.id)
                  clock == DateNow + ms
              IN  [Reply("getSubscriptionDetails", 200, "subscription, paymentInfo")
                     EXCEPT !.status = p.status,
                            !.isActive = IsActiveStatus(p.status),
                            !.currentPeriodEnd = p.current_period_end]
                    @@ [expiryDate |-> DateOfEpoch(p.current_period_end),
                        remainingDays |-> Countdown(p.current_period_end, clock).remainingDays,
                        validityStatus |->
                            Countdown(p.current_period_end, clock).validityStatus,
                        at |-> clock]
    /\ subscription' =
         IF stripe /\ HasSubscription /\ fault # "retrieve"
         THEN [subscription EXCEPT !.status = Retrieve(subscription.id).status]
         ELSE subscription
    /\ UNCHANGED <<stripe, plans, settingDefault, waiting, autoDebit, mailing, endpoint, now,
                   customerId,
                   provider, payments, provSteps, emitted, delivered,
                   requests, lastEvent, pending, invoices>>

\* GET /subscriptions/details; ms: how far into the day new Date() is read.
\* The answer carries paymentInfo (expiryDate, remainingDays, validityStatus)
\* next to the subscription summary; `at` keeps the clock the handler read.
GetSubscriptionDetails(fault, ms) ==
    /\ ms \in ClockFractions
    /\ response' =
         IF ~stripe
         THEN Refused("getSubscriptionDetails")
         ELSE IF ~HasSubscription
         THEN Reply("getSubscriptionDetails", 404, "No subscription found")
         ELSE IF fault = "retrieve"
         THEN Reply("getSubscriptionDetails", 500, "Failed to fetch subscription details")
         ELSE LET p == Retrieve(subscription.id)
                  clock == DateNow + ms
              IN  [Reply("getSubscriptionDetails", 200, "subscription, paymentInfo")
                     EXCEPT !.status = p.status,
                            !.isActive = IsActiveStatus(p.status),
                            !.currentPeriodEnd = p.current_period_end]
                    @@ [expiryDate |-> DateOfEpoch(p.current_period_end),
                        remainingDays |-> Countdown(p.current_period_end, clock).remainingDays,
                        validityStatus |->
                            Countdown(p.current_period_end, clock).validityStatus,
                        at |-> clock]
    /\ UNCHANGED <<stripe, plans, settingDefault, waiting, autoDebit, mailing, endpoint, now,
                   customerId,
                   subscription, provider, payments, provSteps, emitted, delivered,
                   requests, lastEvent, pending, invoices>>

\* POST /invoices/:id/resend (admin): sendInvoice on the row findOne returns
ResendInvoice(id, outcome, saved) ==
    /\ IF \E row \in invoices : row.invoiceId = id
       THEN /\ invoices' = {IF row.invoiceId = id
                            THEN InvoiceAfterSend(row, outcome, saved)
                            ELSE row : row \in invoices}
            /\ response' = IF SendInvoiceEmail(outcome) /\ saved
                           THEN Reply("resendInvoice", 200, "Invoice resent successfully")
                           ELSE Reply("resendInvoice", 500, "Failed to resend invoice")
       ELSE /\ response' = Reply("resendInvoice", 404, "Invoice not found")
            /\ UNCHANGED invoices
    /\ UNCHANGED <<stripe, plans, settingDefault, waiting, autoDebit, mailing, endpoint, now,
                   customerId, subscription,
                   provider, payments, provSteps, emitted, delivered, requests, lastEvent,
                   pending>>

\* ------------------------------------------- subscriptionPlanController
\* the id the table gives the next row
FreshPlanId == Cardinality(plans) + 1

PlanFaults == {"none", "stripe", "store"}

\* POST /admin/subscription-plans.  complete: the body has every required
\* field; isDefault: req.body.isDefault || false.  The row is created with the
\* flag as given: no other row is read or written.
CreateSubscriptionPlan(complete, isDefault, fault) ==
    /\ Cardinality(plans) < MaxPlans
    /\ IF ~complete
       THEN /\ response' = Reply("createSubscriptionPlan", 400, "field is required")
            /\ UNCHANGED plans
       ELSE IF stripe /\ fault = "stripe"
       THEN /\ response' = Reply("createSubscriptionPlan", 500,
                                 "Failed to create Stripe product/price")
            /\ UNCHANGED plans
       ELSE IF fault = "store"
       THEN /\ response' = Reply("createSubscriptionPlan", 500,
                                 "Failed to create subscription plan")
            /\ UNCHANGED plans
       ELSE /\ plans' = plans \cup {[id |-> FreshPlanId, isDefault |-> isDefault]}
            /\ response' = Reply("createSubscriptionPlan", 201,
                                 "Subscription plan created successfully")
    /\ UNCHANGED <<stripe, settingDefault, waiting, autoDebit, mailing, endpoint, now,
                   customerId, subscription, provider, payments, provSteps, emitted,
                   delivered, requests, lastEvent, pending, invoices>>

\* POST /admin/subscription-plans/:id/set-default, up to its first write:
\* findByPk(id), then the update that clears the flag of every other row.  The
\* call keeps the instance it loaded.
SetDefaultClears(id, fault) ==
    /\ \A call \in settingDefault : call.id # id
    /\ IF \A row \in plans : row.id # id
       THEN /\ response' = Reply("setDefaultSubscriptionPlan", 404,
                                 "Subscription plan not found")
            /\ UNCHANGED <<plans, settingDefault>>
       ELSE IF fault = "store"
       THEN /\ response' = Reply("setDefaultSubscriptionPlan", 500,
                                 "Failed to set default subscription plan")
            /\ UNCHANGED <<plans, settingDefault>>
       ELSE /\ plans' = {IF row.id # id THEN [row EXCEPT !.isDefault = FALSE] ELSE row :
                            row \in plans}
            /\ settingDefault' = settingDefault \cup {row \in plans : row.id = id}
            /\ response' = NoResponse
    /\ UNCHANGED <<stripe, waiting, autoDebit, mailing, endpoint, now,
                   customerId, subscription, provider, payments, provSteps, emitted,
                   delivered, requests, lastEvent, pending, invoices>>

\* the rest of the call: plan.isDefault = true; plan.save().  save() writes
\* the attributes that changed on the instance, so an instance loaded with the
\* flag set writes no flag.
SetDefaultSaves(call, fault) ==
    /\ call \in settingDefault
    /\ settingDefault' = settingDefault \ {call}
    /\ IF fault = "store"
       THEN /\ response' = Reply("setDefaultSubscriptionPlan", 500,
                                 "Failed to set default subscription plan")
            /\ UNCHANGED plans
       ELSE /\ plans' = {IF row.id = call.id /\ ~call.isDefault
                         THEN [row EXCEPT !.isDefault = TRUE]
                         ELSE row : row \in plans}
            /\ response' = Reply("setDefaultSubscriptionPlan", 200,
                                 "Default subscription plan updated successfully")
    /\ UNCHANGED <<stripe, waiting, autoDebit, mailing, endpoint, now,
                   customerId, subscription, provider, payments, provSteps, emitted,
                   delivered, requests, lastEvent, pending, invoices>>

\* ------------------------------------------------------ the specification
\* the server has started and the user has registered: no customer, no
\* subscription, no invoice
Init ==
    /\ stripe \in BOOLEAN
    /\ endpoint \in BOOLEAN
    /\ now = 1
    /\ customerId = FALSE
    /\ autoDebit = TRUE
    /\ subscription = NoSub
    /\ provider = <<>>
    /\ payments = 0
    /\ provSteps = 0
    /\ emitted = {}
    /\ delivered = {}
    /\ requests = <<>>
    /\ lastEvent = NoEvent
    /\ pending = <<>>
    /\ invoices = {}
    /\ mailing = {}
    /\ waiting = NoWait
    /\ response = NoResponse
    /\ plans = {}
    /\ settingDefault = {}

\* the provider and the clock
Environment ==
    \/ Tick
    \/ \E id \in SubIds : ProviderPaysInvoice(id)
    \/ \E id \in SubIds : ProviderPaysIntent(id)
    \/ \E id \in SubIds : ProviderFailsPayment(id)
    \/ \E id \in SubIds : ProviderDeletes(id)

\* a create request, while the provider holds fewer than `limit` subscriptions
Create(limit) ==
    /\ Len(provider) < limit
    /\ \E price \in Intervals \cup {"none"},
          periodEnd \in PeriodEnds \cup {Absent}, fault \in CreateFaults :
          CreateSubscription(price, periodEnd, fault)

\* the webhook endpoint and the invoice side effect, with the create endpoint
\* that gives the user a customer and a subscription
NextWebhook ==
    \/ Environment
    \/ Create(MaxSubs)
    \/ HandleWebhook(ForgedEvent, FALSE, "none", Absent)
    \/ \E e \in emitted : HandleWebhook(e, TRUE, "none", Absent)
    \/ \E e \in emitted, fault \in Faults \ {"none"}, unhandled \in {Absent, 500} :
          Throws(e, fault) /\ HandleWebhook(e, TRUE, fault, unhandled)
    \/ \E i \in 1 .. MaxInvoices, created \in BOOLEAN : GenerateInvoice(i, created)

InitWebhook == Init /\ endpoint

SpecWebhook == InitWebhook /\ [][NextWebhook]_vars

\* the endpoints of the subscription owner, with no webhook endpoint registered
NextApi ==
    \/ Environment
    \/ Create(MaxSubs)
    \/ \E fault \in Faults3 : CancelSubscription(fault)
    \/ \E fault \in Faults3 : GetSubscriptionStatus(fault)
    \/ \E fault \in Faults3 : ForceActivateSubscription(fault)

InitApi == Init /\ ~endpoint

SpecApi == InitApi /\ [][NextApi]_vars

\* checking out again: the create endpoint called for a user who has a record
NextCheckout ==
    \/ Tick
    \/ \E id \in SubIds : ProviderPaysInvoice(id)
    \/ Create(MaxCheckouts)
    \/ \E fault \in Faults3 : GetSubscriptionStatus(fault)
    \/ \E fault \in Faults3 : ForceActivateSubscription(fault)

SpecCheckout == InitApi /\ [][NextCheckout]_vars

\* redelivery and reordering: every verified delivery is answered 200 and the
\* provider records it as delivered; it may deliver an event again, and in any
\* order
Deliver(e) ==
    /\ Webhook(e, TRUE, "none", Absent)
    /\ delivered' = IF response'.code = 200 THEN delivered \cup {e} ELSE delivered
    /\ UNCHANGED requests

NextDelivery ==
    \/ Create(MaxSubs)
    \/ \E id \in SubIds : ProviderPaysInvoice(id)
    \/ \E id \in SubIds : ProviderDeletes(id)
    \/ \E e \in emitted : Deliver(e)
    \/ \E i \in 1 .. MaxInvoices, created \in BOOLEAN : GenerateInvoice(i, created)

SpecDelivery == InitWebhook /\ [][NextDelivery]_vars

\* two requests in flight at once.  A handler awaits its query (findOne,
\* findByPk), changes the object it got and awaits save(), which writes the
\* whole JSON column; another request may load or save in between.
Request(op, e, loaded) == [op |-> op, e |-> e, loaded |-> loaded, done |-> FALSE]

\* the query of a webhook handler resolves
LoadForWebhook(e) ==
    /\ stripe /\ HasSubscription
    /\ e \in emitted /\ CallsStore(e)
    /\ Len(requests) < MaxRequests
    /\ requests' = Append(requests, Request("handleWebhook", e, subscription))
    /\ response' = NoResponse
    /\ UNCHANGED <<stripe, plans, settingDefault, waiting, autoDebit, mailing, endpoint, now,
                   customerId,
                   subscription, provider, payments,
                   provSteps, emitted, delivered, lastEvent, pending, invoices>>

\* the query of forceActivateSubscription resolves
LoadForForceActivate ==
    /\ stripe /\ HasSubscription
    /\ Len(requests) < MaxRequests
    /\ requests' = Append(requests,
                          Request("forceActivateSubscription", NoEvent, subscription))
    /\ response' = NoResponse
    /\ UNCHANGED <<stripe, plans, settingDefault, waiting, autoDebit, mailing, endpoint, now,
                   customerId,
                   subscription, provider, payments,
                   provSteps, emitted, delivered, lastEvent, pending, invoices>>

\* the rest of the handler, from the object it loaded to its save and answer
SaveRequest(n) ==
    /\ n \in 1 .. Len(requests)
    /\ ~requests[n].done
    /\ IF requests[n].op = "handleWebhook"
       THEN WebhookOn(requests[n].loaded, requests[n].e, TRUE, "none", Absent)
       ELSE ForceActivate(requests[n].loaded, "none")
    /\ requests' = [requests EXCEPT ![n].done = TRUE]
    /\ delivered' = delivered

\* the provider and the create endpoint act until the first of the requests
\* loads the record; nothing but the requests writes after that
NextRace ==
    \/ requests = <<>> /\ Environment
    \/ requests = <<>> /\ Create(MaxSubs)
    \/ \E e \in emitted : LoadForWebhook(e)
    \/ LoadForForceActivate
    \/ \E n \in 1 .. MaxRequests : SaveRequest(n)

SpecRace == InitWebhook /\ [][NextRace]_vars

\* the webhook endpoint as a function of what it is sent and what is stored:
\* any stored record, any invoice rows, any payload without a signature
StoredRecords ==
    {[id |-> 1, status |-> s, currentPeriodEnd |-> DateOfEpoch(end),
      interval |-> "month", cancelAtPeriodEnd |-> c, paymentDate |-> MsPerSec] :
        s \in ProviderStatuses, end \in PeriodEnds \cup {Absent}, c \in BOOLEAN}

InitForged ==
    /\ stripe \in BOOLEAN
    /\ endpoint = TRUE
    /\ now = 1
    /\ customerId = TRUE
    /\ autoDebit = TRUE
    /\ subscription \in StoredRecords
    /\ provider \in {<<[NewProviderSubscription("month", MaxNow) EXCEPT !.status = s]>> :
                       s \in ProviderStatuses}
    /\ payments = 1
    /\ provSteps = 0
    /\ emitted = {}
    /\ delivered = {}
    /\ requests = <<>>
    /\ lastEvent = NoEvent
    /\ pending = <<>>
    /\ invoices \in {{}, {[invoiceId |-> 1, subscriptionId |-> 1,
                          stripeInvoiceId |-> <<"in", 1>>, status |-> "paid",
                          emailSent |-> FALSE]}}
    /\ mailing = {}
    /\ waiting = NoWait
    /\ response = NoResponse
    /\ plans = {}
    /\ settingDefault = {}

NextForged ==
    \/ Tick
    \/ \E e \in ForgedEvents : HandleWebhook(e, FALSE, "none", Absent)

SpecForged == InitForged /\ [][NextForged]_vars

\* the payment cases of the webhook as a function of what they are sent and
\* what they read: any stored record, any provider record, and the payment
\* events of one payment, with and without metadata.subscription_id
PaymentEvents ==
    {PaymentEvent(t, 1, <<IF t = "charge.succeeded" THEN "ch" ELSE "pi", 1>>, inv, meta) :
        t \in {"charge.succeeded", "payment_intent.succeeded"},
        inv \in {NoRef, <<"in", 1>>}, meta \in BOOLEAN}

InitPayment ==
    /\ stripe = TRUE
    /\ endpoint = TRUE
    /\ now = 1
    /\ customerId = TRUE
    /\ autoDebit = TRUE
    /\ subscription \in StoredRecords
    /\ provider \in {<<p>> : p \in {q \in ProviderRecords : ~q.cancel_at_period_end}}
    /\ payments = 1
    /\ provSteps = 0
    /\ emitted = PaymentEvents
    /\ delivered = {}
    /\ requests = <<>>
    /\ lastEvent = NoEvent
    /\ pending = <<>>
    /\ invoices = {}
    /\ mailing = {}
    /\ waiting = NoWait
    /\ response = NoResponse
    /\ plans = {}
    /\ settingDefault = {}

NextPayment ==
    \/ Tick
    \/ \E e \in emitted : HandleWebhook(e, TRUE, "none", Absent)
    \/ \E i \in 1 .. MaxInvoices, created \in BOOLEAN : GenerateInvoice(i, created)

SpecPayment == InitPayment /\ [][NextPayment]_vars

\* the invoice and its email after a payment event, the tasks run to their
\* end: a stored record that is incomplete or active, the provider's record
\* of it, the payment events that name the subscription and the event of its
\* paid invoice
InitInvoice ==
    /\ stripe = TRUE
    /\ endpoint = TRUE
    /\ now = 1
    /\ customerId = TRUE
    /\ autoDebit = TRUE
    /\ subscription \in {r \in StoredRecords :
                           /\ r.status \in {"incomplete", "active"}
                           /\ ~r.cancelAtPeriodEnd}
    /\ provider \in {<<p>> : p \in {q \in ProviderRecords :
                                      /\ q.status \in {"incomplete", "active"}
                                      /\ ~q.cancel_at_period_end}}
    /\ payments = 1
    /\ provSteps = 0
    /\ emitted = {e \in PaymentEvents : e.meta}
                   \cup {InvoiceEvent("invoice.payment_succeeded", 1, 1, MaxNow)}
    /\ delivered = {}
    /\ requests = <<>>
    /\ lastEvent = NoEvent
    /\ pending = <<>>
    /\ invoices = {}
    /\ mailing = {}
    /\ waiting = NoWait
    /\ response = NoResponse
    /\ plans = {}
    /\ settingDefault = {}

NextInvoice ==
    \/ \E e \in emitted : HandleWebhook(e, TRUE, "none", Absent)
    \/ \E i \in 1 .. MaxInvoices, created \in BOOLEAN : GenerateInvoice(i, created)
    \/ \E id \in 1 .. MaxInvoices, outcome \in EmailOutcomes, saved \in BOOLEAN :
          SendInvoice(id, outcome, saved)

SpecInvoice == InitInvoice /\ [][NextInvoice]_vars

\* the recovery endpoints as functions of what they read: any stored record,
\* any provider record, any answer of the provider about payments
InitRecovery ==
    /\ stripe \in BOOLEAN
    /\ endpoint = FALSE
    /\ now = 1
    /\ customerId = TRUE
    /\ autoDebit = TRUE
    /\ subscription \in StoredRecords
    /\ provider \in {<<p>> : p \in ProviderRecords}
    /\ payments = 1
    /\ provSteps = 0
    /\ emitted = {}
    /\ delivered = {}
    /\ requests = <<>>
    /\ lastEvent = NoEvent
    /\ pending = <<>>
    /\ invoices = {}
    /\ mailing = {}
    /\ waiting = NoWait
    /\ response = NoResponse
    /\ plans = {}
    /\ settingDefault = {}

NextRecovery ==
    \/ Tick
    \/ \E fault \in ConfirmFaults, intentSucceeded \in BOOLEAN, settles \in BOOLEAN :
          ConfirmPayment(fault, intentSucceeded, settles)
    \/ \E intent \in Intents, fault \in UpdateFaults, settles \in BOOLEAN :
          UpdateSubscriptionPaymentMethod(intent, fault, settles)
    \/ \E fault \in Faults3, charge \in BOOLEAN, invoiceIntent \in BOOLEAN,
          intent \in BOOLEAN :
          FixSubscriptionStatus(fault, charge, invoiceIntent, intent)
    \/ \E fault \in Faults3 : ForceActivateSubscription(fault)

SpecRecovery == InitRecovery /\ [][NextRecovery]_vars

\* force-activate called again and again, with the record each successful
\* call loaded kept in `requests`
ForceActivateAgain(fault) ==
    /\ Len(requests) < MaxRequests
    /\ ForceActivate(subscription, fault)
    /\ requests' =
         IF response'.code = 200
         THEN Append(requests,
                     Request("forceActivateSubscription", NoEvent, subscription))
         ELSE requests

NextForceTwice ==
    \/ Tick
    \/ \E fault \in Faults3 : ForceActivateAgain(fault)

SpecForceTwice == InitRecovery /\ [][NextForceTwice]_vars

\* the auto-debit preference and the operations that write the cancel flag,
\* from a record whose flag agrees with the provider's and with the preference
InitAutoDebit ==
    /\ stripe = TRUE
    /\ endpoint = TRUE
    /\ now = 1
    /\ customerId = TRUE
    /\ subscription \in {r \in StoredRecords :
                           r.status = "active" /\ r.currentPeriodEnd # Absent}
    /\ autoDebit = ~subscription.cancelAtPeriodEnd
    /\ provider \in {<<p>> : p \in {q \in ProviderRecords :
                                      /\ q.status = "active"
                                      /\ q.current_period_end # Absent
                                      /\ q.cancel_at_period_end
                                           = subscription.cancelAtPeriodEnd}}
    /\ payments = 1
    /\ provSteps = 0
    /\ emitted = {}
    /\ delivered = {}
    /\ requests = <<>>
    /\ lastEvent = NoEvent
    /\ pending = <<>>
    /\ invoices = {}
    /\ mailing = {}
    /\ waiting = NoWait
    /\ response = NoResponse
    /\ plans = {}
    /\ settingDefault = {}

NextAutoDebit ==
    \/ \E isBoolean \in BOOLEAN, value \in BOOLEAN, fault \in Faults3 :
          SetAutoDebit(isBoolean, value, fault)
    \/ \E fault \in Faults3 : CancelSubscription(fault)
    \/ \E fault \in Faults3 : ResumeSubscription(fault)
    \/ \E fault \in Faults3 : ForceActivateSubscription(fault)
    \/ \E e \in emitted : HandleWebhook(e, TRUE, "none", Absent)

SpecAutoDebit == InitAutoDebit /\ [][NextAutoDebit]_vars

\* the two handlers that wait, step by step, from any stored record and any
\* provider record; the timer of a waiting handler fires and the handler runs
InitPolling ==
    /\ stripe = TRUE
    /\ endpoint = FALSE
    /\ now = 1
    /\ customerId = TRUE
    /\ autoDebit = TRUE
    /\ subscription \in {r \in StoredRecords : ~r.cancelAtPeriodEnd}
    /\ provider \in {<<p>> : p \in {q \in ProviderRecords : ~q.cancel_at_period_end}}
    /\ payments = 1
    /\ provSteps = 0
    /\ emitted = {}
    /\ delivered = {}
    /\ requests = <<>>
    /\ lastEvent = NoEvent
    /\ pending = <<>>
    /\ invoices = {}
    /\ mailing = {}
    /\ waiting = NoWait
    /\ response = NoResponse
    /\ plans = {}
    /\ settingDefault = {}

Resumes ==
    \/ \E fault \in {"none", "recheck", "save"} : ConfirmPaymentResumes(fault)
    \/ \E fault \in {"none", "recheck", "save"} :
          UpdateSubscriptionPaymentMethodResumes(fault)

NextPolling ==
    \/ \E fault \in ConfirmFaults, intentSucceeded \in BOOLEAN :
          ConfirmPaymentBegins(fault, intentSucceeded)
    \/ \E intent \in Intents, fault \in UpdateFaults :
          UpdateSubscriptionPaymentMethodBegins(intent, fault)
    \/ ProviderSettles
    \/ Resumes

SpecPolling == InitPolling /\ [][NextPolling]_vars /\ WF_vars(Resumes)

\* the status endpoint as a function of what it reads: any stored record, any
\* provider record, any time
StoredPeriodEnds ==
    {Absent} \cup {DateOfEpoch(t) : t \in PeriodEnds}
             \cup {(t + ValidityDays(i)) * MsPerSec : t \in 1 .. MaxNow, i \in Intervals}

InitStatus ==
    /\ stripe = TRUE
    /\ endpoint = FALSE
    /\ now \in 1 .. MaxNow
    /\ customerId = TRUE
    /\ autoDebit = TRUE
    /\ \E status \in ProviderStatuses, end \in StoredPeriodEnds, cancel \in BOOLEAN :
          subscription = [id |-> 1, status |-> status, currentPeriodEnd |-> end,
                          interval |-> "month", cancelAtPeriodEnd |-> cancel,
                          paymentDate |-> MsPerSec]
    /\ \E status \in ProviderStatuses, end \in PeriodEnds \cup {Absent} :
          provider = <<[NewProviderSubscription("month", end) EXCEPT !.status = status]>>
    /\ payments = 0
    /\ provSteps = 0
    /\ emitted = {}
    /\ delivered = {}
    /\ requests = <<>>
    /\ lastEvent = NoEvent
    /\ pending = <<>>
    /\ invoices = {}
    /\ mailing = {}
    /\ waiting = NoWait
    /\ response = NoResponse
    /\ plans = {}
    /\ settingDefault = {}

NextStatus ==
    \/ Tick
    \/ \E fault \in Faults3 : GetSubscriptionStatus(fault)

SpecStatus == InitStatus /\ [][NextStatus]_vars

\* the status endpoint around a cancellation: any stored record, any provider
\* record, any time
NextCancel ==
    \/ Tick
    \/ \E fault \in Faults3 : GetSubscriptionStatus(fault)
    \/ \E fault \in Faults3 : CancelSubscription(fault)

SpecCancel == InitStatus /\ [][NextCancel]_vars

\* the details endpoint as a function of what it reads: a stored record, a
\* provider record whose period end lies up to MaxAhead days ahead or behind,
\* and the time of the request
InitDetails ==
    /\ stripe = TRUE
    /\ endpoint = FALSE
    /\ now \in 1 .. MaxNow
    /\ customerId = TRUE
    /\ autoDebit = TRUE
    /\ subscription \in {r \in StoredRecords : r.status = "active" /\ ~r.cancelAtPeriodEnd}
    /\ \E status \in {"active", "canceled"}, end \in (1 .. MaxNow + MaxAhead) \cup {Absent} :
          provider = <<[NewProviderSubscription("month", end) EXCEPT !.status = status]>>
    /\ payments = 0
    /\ provSteps = 0
    /\ emitted = {}
    /\ delivered = {}
    /\ requests = <<>>
    /\ lastEvent = NoEvent
    /\ pending = <<>>
    /\ invoices = {}
    /\ mailing = {}
    /\ waiting = NoWait
    /\ response = NoResponse
    /\ plans = {}
    /\ settingDefault = {}

NextDetails ==
    \/ Tick
    \/ \E fault \in Faults3, ms \in ClockFractions : GetSubscriptionDetails(fault, ms)

SpecDetails == InitDetails /\ [][NextDetails]_vars

\* the webhook endpoint sent events of types the switch has no case for,
\* beside the events of one payment: a stored record and a provider record
\* that are incomplete or active
UnrecognizedEvents ==
    {SubscriptionEvent(t, 1, p) :
        t \in {"customer.subscription.paused", "customer.subscription.trial_will_end"},
        p \in {q \in ProviderRecords : /\ q.current_period_end = MaxNow
                                        /\ q.status = "active"
                                        /\ ~q.cancel_at_period_end}}
      \cup {InvoiceEvent(t, 1, 1, MaxNow) : t \in {"invoice.paid", "invoice.created"}}
      \cup {PaymentEvent("payment_intent.canceled", 1, <<"pi", 1>>, NoRef, TRUE)}

InitUnrecognized ==
    /\ stripe = TRUE
    /\ endpoint = TRUE
    /\ now = 1
    /\ customerId = TRUE
    /\ autoDebit = TRUE
    /\ subscription \in {r \in StoredRecords :
                            /\ r.status \in {"incomplete", "active"}
                            /\ r.currentPeriodEnd = DateOfEpoch(1)
                            /\ ~r.cancelAtPeriodEnd}
    /\ provider \in {<<p>> : p \in {q \in ProviderRecords :
                                        /\ q.status \in {"incomplete", "active"}
                                        /\ q.current_period_end = MaxNow
                                        /\ ~q.cancel_at_period_end}}
    /\ payments = 1
    /\ provSteps = 0
    /\ emitted = UnrecognizedEvents
                   \cup {InvoiceEvent("invoice.payment_succeeded", 1, 1, MaxNow),
                         PaymentEvent("charge.succeeded", 1, <<"ch", 1>>, NoRef, TRUE)}
    /\ delivered = {}
    /\ requests = <<>>
    /\ lastEvent = NoEvent
    /\ pending = <<>>
    /\ invoices = {}
    /\ mailing = {}
    /\ waiting = NoWait
    /\ response = NoResponse
    /\ plans = {}
    /\ settingDefault = {}

NextUnrecognized ==
    \/ Tick
    \/ \E e \in emitted : HandleWebhook(e, TRUE, "none", Absent)
    \/ \E i \in 1 .. MaxInvoices, created \in BOOLEAN : GenerateInvoice(i, created)

SpecUnrecognized == InitUnrecognized /\ [][NextUnrecognized]_vars

\* the webhook endpoint sent the events of a customer who holds a second
\* subscription at the provider: the stored record is that of subscription 1,
\* the events are about subscription 2, about an invoice of no subscription,
\* and about subscription 1
OtherSubscription == 2

SameCustomerEvents ==
    {SubscriptionEvent(t, id, p) :
        t \in {"customer.subscription.updated", "customer.subscription.deleted"},
        id \in {1, OtherSubscription},
        p \in {q \in ProviderRecords : /\ q.current_period_end = MaxNow
                                        /\ q.status \in {"past_due", "canceled"}
                                        /\ ~q.cancel_at_period_end}}
      \cup {InvoiceEvent(t, id, 1, MaxNow) :
              t \in {"invoice.payment_succeeded", "invoice.payment_failed"},
              id \in {Absent, 1, OtherSubscription}}

InitOtherSubscription ==
    /\ stripe = TRUE
    /\ endpoint = TRUE
    /\ now = 1
    /\ customerId = TRUE
    /\ autoDebit = TRUE
    /\ subscription \in {r \in StoredRecords :
                            /\ r.status \in {"active", "canceled"}
                            /\ r.currentPeriodEnd = DateOfEpoch(1)
                            /\ ~r.cancelAtPeriodEnd}
    /\ provider \in {<<p, q>> :
                       p \in {r \in ProviderRecords : /\ r.status \in {"active", "canceled"}
                                                       /\ r.current_period_end = 1
                                                       /\ ~r.cancel_at_period_end},
                       q \in {r \in ProviderRecords : /\ r.status \in {"past_due", "canceled"}
                                                       /\ r.current_period_end = MaxNow
                                                       /\ ~r.cancel_at_period_end}}
    /\ payments = 1
    /\ provSteps = 0
    /\ emitted = SameCustomerEvents
    /\ delivered = {}
    /\ requests = <<>>
    /\ lastEvent = NoEvent
    /\ pending = <<>>
    /\ invoices = {}
    /\ mailing = {}
    /\ waiting = NoWait
    /\ response = NoResponse
    /\ plans = {}
    /\ settingDefault = {}

NextOtherSubscription ==
    \/ Tick
    \/ \E e \in emitted : HandleWebhook(e, TRUE, "none", Absent)
    \/ \E i \in 1 .. MaxInvoices, created \in BOOLEAN : GenerateInvoice(i, created)

SpecOtherSubscription == InitOtherSubscription /\ [][NextOtherSubscription]_vars

\* the fix-status endpoint alone: any stored record, any provider record, any
\* answer of the provider about payments
NextFix ==
    \/ Tick
    \/ \E fault \in Faults3, charge \in BOOLEAN, invoiceIntent \in BOOLEAN,
          intent \in BOOLEAN :
          FixSubscriptionStatus(fault, charge, invoiceIntent, intent)

SpecFix == InitRecovery /\ [][NextFix]_vars

\* the payment cases of the webhook for a stored record that is incomplete or
\* active, over a provider record of any status
InitTagged ==
    /\ stripe = TRUE
    /\ endpoint = TRUE
    /\ now = 1
    /\ customerId = TRUE
    /\ autoDebit = TRUE
    /\ subscription \in {r \in StoredRecords :
                            /\ r.status \in {"incomplete", "active"}
                            /\ r.currentPeriodEnd = DateOfEpoch(1)
                            /\ ~r.cancelAtPeriodEnd}
    /\ provider \in {<<p>> : p \in {q \in ProviderRecords :
                                        /\ q.current_period_end = MaxNow
                                        /\ ~q.cancel_at_period_end}}
    /\ payments = 1
    /\ provSteps = 0
    /\ emitted = PaymentEvents
    /\ delivered = {}
    /\ requests = <<>>
    /\ lastEvent = NoEvent
    /\ pending = <<>>
    /\ invoices = {}
    /\ mailing = {}
    /\ waiting = NoWait
    /\ response = NoResponse
    /\ plans = {}
    /\ settingDefault = {}

SpecTagged == InitTagged /\ [][NextPayment]_vars

\* every writer of the record around a period that runs out: a stored record
\* and a provider record that are active or past due and end on day 1, the
\* webhook endpoint registered
InitExpiry ==
    /\ stripe = TRUE
    /\ endpoint = TRUE
    /\ now = 1
    /\ customerId = TRUE
    /\ autoDebit = TRUE
    /\ subscription \in {r \in StoredRecords :
                            /\ r.status \in {"active", "past_due"}
                            /\ r.currentPeriodEnd = DateOfEpoch(1)
                            /\ ~r.cancelAtPeriodEnd}
    /\ provider \in {<<p>> : p \in {q \in ProviderRecords :
                                        /\ q.status \in {"active", "past_due"}
                                        /\ q.current_period_end = 1
                                        /\ ~q.cancel_at_period_end}}
    /\ payments = 1
    /\ provSteps = 0
    /\ emitted = {}
    /\ delivered = {}
    /\ requests = <<>>
    /\ lastEvent = NoEvent
    /\ pending = <<>>
    /\ invoices = {}
    /\ mailing = {}
    /\ waiting = NoWait
    /\ response = NoResponse
    /\ plans = {}
    /\ settingDefault = {}

NextExpiry ==
    \/ Tick
    \/ \E fault \in Faults3 : GetSubscriptionStatus(fault)
    \/ \E fault \in Faults3 : CancelSubscription(fault)
    \/ \E fault \in Faults3 : ResumeSubscription(fault)
    \/ \E fault \in Faults3 : ForceActivateSubscription(fault)
    \/ \E fault \in Faults3, charge \in BOOLEAN, invoiceIntent \in BOOLEAN,
          intent \in BOOLEAN :
          FixSubscriptionStatus(fault, charge, invoiceIntent, intent)
    \/ \E e \in emitted : HandleWebhook(e, TRUE, "none", Absent)

SpecExpiry == InitExpiry /\ [][NextExpiry]_vars

\* the invoice rows under the first send and the admin's resends
NextResend ==
    \/ NextInvoice
    \/ \E id \in 1 .. MaxInvoices, outcome \in EmailOutcomes, saved \in BOOLEAN :
          ResendInvoice(id, outcome, saved)

\* one active subscription, the event of its paid invoice and of its charge
InitResend ==
    /\ stripe = TRUE
    /\ endpoint = TRUE
    /\ now = 1
    /\ customerId = TRUE
    /\ autoDebit = TRUE
    /\ subscription \in {r \in StoredRecords :
                            /\ r.status = "active"
                            /\ r.currentPeriodEnd = DateOfEpoch(1)
                            /\ ~r.cancelAtPeriodEnd}
    /\ provider \in {<<p>> : p \in {q \in ProviderRecords :
                                        /\ q.status = "active"
                                        /\ q.current_period_end = 1
                                        /\ ~q.cancel_at_period_end}}
    /\ payments = 1
    /\ provSteps = 0
    /\ emitted = {InvoiceEvent("invoice.payment_succeeded", 1, 1, MaxNow),
                  PaymentEvent("charge.succeeded", 1, <<"ch", 1>>, NoRef, TRUE)}
    /\ delivered = {}
    /\ requests = <<>>
    /\ lastEvent = NoEvent
    /\ pending = <<>>
    /\ invoices = {}
    /\ mailing = {}
    /\ waiting = NoWait
    /\ response = NoResponse
    /\ plans = {}
    /\ settingDefault = {}

SpecResend == InitResend /\ [][NextResend]_vars

\* the webhook endpoint with calls that may reject: a stored record and a
\* provider record that are incomplete or active, the events of one payment
\* and an event the switch has no case for
NextAcknowledge ==
    \/ Tick
    \/ \E e \in emitted : HandleWebhook(e, TRUE, "none", Absent)
    \/ \E e \in emitted, fault \in Faults \ {"none"}, unhandled \in {Absent, 500} :
          Throws(e, fault) /\ HandleWebhook(e, TRUE, fault, unhandled)
    \/ \E i \in 1 .. MaxInvoices, created \in BOOLEAN : GenerateInvoice(i, created)

InitAcknowledge ==
    /\ stripe = TRUE
    /\ endpoint = TRUE
    /\ now = 1
    /\ customerId = TRUE
    /\ autoDebit = TRUE
    /\ subscription \in {r \in StoredRecords :
                            /\ r.status \in {"incomplete", "active"}
                            /\ r.currentPeriodEnd = DateOfEpoch(1)
                            /\ ~r.cancelAtPeriodEnd}
    /\ provider \in {<<p>> : p \in {q \in ProviderRecords :
                                        /\ q.status \in {"incomplete", "active"}
                                        /\ q.current_period_end = MaxNow
                                        /\ ~q.cancel_at_period_end}}
    /\ payments = 1
    /\ provSteps = 0
    /\ emitted = {InvoiceEvent("invoice.payment_succeeded", 1, 1, MaxNow),
                  InvoiceEvent("invoice.paid", 1, 1, MaxNow),
                  PaymentEvent("charge.succeeded", 1, <<"ch", 1>>, NoRef, TRUE),
                  PaymentEvent("payment_intent.succeeded", 1, <<"pi", 1>>, NoRef, TRUE)}
    /\ delivered = {}
    /\ requests = <<>>
    /\ lastEvent = NoEvent
    /\ pending = <<>>
    /\ invoices = {}
    /\ mailing = {}
    /\ waiting = NoWait
    /\ response = NoResponse
    /\ plans = {}
    /\ settingDefault = {}

SpecAcknowledge == InitAcknowledge /\ [][NextAcknowledge]_vars

\* the two read endpoints as functions of what they read: a provider client
\* that is configured or not, no stored record or any stored record, any
\* provider record, an invoice row or none, the webhook endpoint registered
InitReads ==
    /\ stripe \in BOOLEAN
    /\ endpoint = TRUE
    /\ now \in 1 .. MaxNow
    /\ customerId = TRUE
    /\ autoDebit = TRUE
    /\ subscription \in StoredRecords \cup {NoSub}
    /\ provider \in {<<p>> : p \in {q \in ProviderRecords : ~q.cancel_at_period_end}}
    /\ payments = 1
    /\ provSteps = 0
    /\ emitted = {}
    /\ delivered = {}
    /\ requests = <<>>
    /\ lastEvent = NoEvent
    /\ pending = <<>>
    /\ invoices \in {{}, {[invoiceId |-> 1, subscriptionId |-> 1,
                          stripeInvoiceId |-> <<"in", 1>>, status |-> "paid",
                          emailSent |-> FALSE]}}
    /\ mailing = {}
    /\ waiting = NoWait
    /\ response = NoResponse
    /\ plans = {}
    /\ settingDefault = {}

NextReads ==
    \/ Tick
    \/ \E fault \in Faults3 : GetSubscriptionStatus(fault)
    \/ \E fault \in Faults3, ms \in ClockFractions : GetSubscriptionDetails(fault, ms)

SpecReads == InitReads /\ [][NextReads]_vars

\* the admin's plan endpoints, their calls interleaved: the table starts empty
InitPlans == Init /\ ~endpoint

NextPlans ==
    \/ \E complete \in BOOLEAN, isDefault \in BOOLEAN, fault \in PlanFaults :
          CreateSubscriptionPlan(complete, isDefault, fault)
    \/ \E id \in 1 .. MaxPlans, fault \in PlanFaults \ {"stripe"} : SetDefaultClears(id, fault)
    \/ \E call \in settingDefault, fault \in PlanFaults \ {"stripe"} :
          SetDefaultSaves(call, fault)

SpecPlans == InitPlans /\ [][NextPlans]_vars

\* ============================================================ the claims
\* the answer in `response` is that of a webhook request
IsWebhookAnswer(r) == r.op = "handleWebhook"

\* rows and in-flight creations of Invoice records with a payment reference
InvoicesFor(ref, rows, tasks) ==
    Cardinality({i \in rows : i.stripeInvoiceId = ref})
      + Cardinality({n \in 1 .. Len(tasks) : tasks[n].stripeInvoiceId = ref})

\* the step is a second delivery of the event delivered last, both answered 200
IsRedelivery ==
    /\ IsWebhookAnswer(response') /\ response'.code = 200
    /\ lastEvent # NoEvent
    /\ lastEvent' = lastEvent

\* C1: delivering the same invoice.payment_succeeded event a second time
\* creates no further Invoice record (one in total) and leaves
\* currentPeriodEnd as it was after the first delivery.
C1_ReplayCreatesNoSecondInvoice ==
    [][(IsRedelivery /\ lastEvent.type = "invoice.payment_succeeded")
         => /\ InvoicesFor(lastEvent.id, invoices', pending')
                 = InvoicesFor(lastEvent.id, invoices, pending)
            /\ subscription'.currentPeriodEnd = subscription.currentPeriodEnd]_vars

\* the payment occurrence a provider reference belongs to
PaymentOf(ref) == ref[2]

\* C2: in every reachable state at most one Invoice record exists per
\* successful payment occurrence.
C2_OneInvoicePerPayment ==
    \A k \in 1 .. payments :
        Cardinality({i \in invoices : PaymentOf(i.stripeInvoiceId) = k}) <= 1

\* C6: a webhook request whose signature verification fails is answered 400
\* and neither the subscription record nor any Invoice is created or changed.
C6_UnverifiedWebhookRejected ==
    [][(IsWebhookAnswer(response') /\ ~response'.verified /\ stripe)
         => /\ response'.code = 400
            /\ subscription' = subscription
            /\ invoices' = invoices
            /\ pending' = pending]_vars

\* C6's case: a forged request was rejected while the user had a subscription
\* record that the forged event would have changed
C6_Witness ==
    /\ IsWebhookAnswer(response) /\ ~response.verified /\ response.code = 400
    /\ HasSubscription
    /\ Dispatch(ForgedEvent, subscription).subscription # subscription

\* C7: every verified webhook request is answered 200, whatever happens in
\* the event handler.
C7_VerifiedWebhookAcknowledged ==
    (IsWebhookAnswer(response) /\ response.verified /\ stripe)
        => response.code = 200

\* the fields of the record that C8 speaks of
Fields(sub) ==
    <<sub.status, sub.currentPeriodEnd, sub.interval, sub.cancelAtPeriodEnd>>

\* C8: delivering an event a second time leaves status, currentPeriodEnd,
\* interval and cancelAtPeriodEnd as they were after the first delivery.
C8_RedeliveryKeepsRecord ==
    [][IsRedelivery => Fields(subscription') = Fields(subscription)]_vars

\* C10: once the record has an external id, no step changes it.
C10_ExternalIdImmutable ==
    [][subscription.id # Absent => subscription'.id = subscription.id]_vars

\* C4: a stored record whose status is active has a currentPeriodEnd.
C4_ActiveHasPeriodEnd ==
    subscription.status = "active" => subscription.currentPeriodEnd # Absent

\* the provider's record of the stored subscription
Provided == Retrieve(subscription.id)

\* the status endpoint has just answered a user who has a record whose
\* status is active, from a provider lookup that succeeded
ActiveStatusAnswered ==
    /\ response.op = "getSubscriptionStatus" /\ response.code = 200
    /\ HasSubscription
    /\ subscription.status = "active"

\* C5 as stated: when the stored status is active and the stored
\* currentPeriodEnd is in the past, the status endpoint reports isActive=false
\* and status=expired, whatever the provider returns.
C5_StoredExpiryReported ==
    (/\ ActiveStatusAnswered
     /\ subscription.currentPeriodEnd # Absent
     /\ DateNow > subscription.currentPeriodEnd)
        => (~response.isActive /\ response.status = "expired")

\* C5 amended: when the stored status is active and the provider returns a
\* current_period_end that is in the past, the status endpoint reports
\* isActive=false and status=expired, whatever status the provider returns and
\* whatever the stored currentPeriodEnd is.
C5_ProviderExpiryReported ==
    (/\ ActiveStatusAnswered
     /\ Provided.current_period_end # Absent
     /\ DateNow > DateOfEpoch(Provided.current_period_end))
        => (~response.isActive /\ response.status = "expired")

\* C5's case: expired was reported for a stored active record whose own
\* currentPeriodEnd is still ahead, because the provider's is in the past
C5_Witness ==
    /\ ActiveStatusAnswered
    /\ Provided.current_period_end # Absent
    /\ DateNow > DateOfEpoch(Provided.current_period_end)
    /\ subscription.currentPeriodEnd > DateNow
    /\ Provided.status # "active"
    /\ response.status = "expired" /\ ~response.isActive

\* the status and period end of a stored record are the provider's
Converged(sub, p) ==
    /\ sub.status = p.status
    /\ (p.status # "canceled" /\ p.current_period_end # Absent)
          => sub.currentPeriodEnd = DateOfEpoch(p.current_period_end)

\* C9: once every event the provider emitted has been delivered at least
\* once, in whatever order, the stored status and currentPeriodEnd are the
\* provider's current ones.
C9_DeliveredMeansConverged ==
    (emitted # {} /\ emitted \subseteq delivered /\ HasSubscription)
        => Converged(subscription, Provided)

\* the record a request leaves when it runs alone on the record sub
Ran(r, sub) ==
    IF r.op = "handleWebhook"
    THEN Dispatch(r.e, sub).subscription
    ELSE ForceActivated(sub, Retrieve(sub.id))

\* the records two requests leave when one runs after the other
SerialOutcomes(a, b, base) == {Ran(b, Ran(a, base)), Ran(a, Ran(b, base))}

\* C3: when two requests that were in flight together have both saved, the
\* stored record is the one some serial order of the two leaves.
C3_ConcurrentRequestsSerialize ==
    (Len(requests) = 2 /\ requests[1].done /\ requests[2].done)
        => subscription \in SerialOutcomes(requests[1], requests[2], requests[1].loaded)

\* C11: once the stored status is canceled, no webhook request changes it to
\* another value.
C11_CanceledIsTerminal ==
    [][(subscription.status = "canceled" /\ IsWebhookAnswer(response'))
         => subscription'.status = "canceled"]_vars

\* the status endpoint has just answered a user who has a record, from a
\* provider lookup that succeeded
StatusAnswered ==
    /\ response.op = "getSubscriptionStatus" /\ response.code = 200
    /\ HasSubscription

\* the provider's period end has not passed (or the provider supplies none)
ProvidedPeriodOpen ==
    \/ Provided.current_period_end = Absent
    \/ DateNow <= DateOfEpoch(Provided.current_period_end)

\* C12 as stated: stored active and provider incomplete are reported as
\* active with isActive=true while the period end has not passed; when the
\* stored status is not active, the reported status is the provider's.
C12_TieBreakAsStated ==
    /\ (StatusAnswered /\ subscription.status = "active"
          /\ Provided.status = "incomplete" /\ ProvidedPeriodOpen)
          => (response.status = "active" /\ response.isActive)
    /\ (StatusAnswered /\ subscription.status # "active")
          => response.status = Provided.status

\* C12 amended: while the provider's period end has not passed, a stored
\* active status is reported as active with isActive=true whatever the
\* provider's status (incomplete included), and a stored status other than
\* active is reported as the provider's status.
C12_TieBreakWhilePeriodOpen ==
    (StatusAnswered /\ ProvidedPeriodOpen)
        => IF subscription.status = "active"
           THEN response.status = "active" /\ response.isActive
           ELSE response.status = Provided.status

\* C12's case: the stored record is active, the provider says incomplete,
\* the period is open, and active was reported
C12_Witness ==
    /\ StatusAnswered /\ ProvidedPeriodOpen
    /\ subscription.status = "active" /\ Provided.status = "incomplete"
    /\ response.status = "active" /\ response.isActive

\* the step is a verified delivery, answered 200, of a charge.succeeded event
\* that carries metadata.subscription_id, for a subscription the provider
\* holds as incomplete
IsChargeForIncomplete ==
    /\ IsWebhookAnswer(response') /\ response'.verified /\ response'.code = 200
    /\ lastEvent'.type = "charge.succeeded" /\ lastEvent'.meta
    /\ Retrieve(lastEvent'.sub).status = "incomplete"

\* C13: a charge.succeeded event linked to a subscription the provider holds
\* as incomplete leaves the stored status active and starts exactly one
\* Invoice creation, for the charge's payment reference.
C13_ChargeActivatesIncomplete ==
    [][IsChargeForIncomplete
         => /\ subscription'.status = "active"
            /\ pending' = Append(pending,
                                 InvoiceTask(lastEvent'.sub, PaymentReference(lastEvent')))
            /\ invoices' = invoices]_vars

\* C13's case: such a charge was handled for a record that was not active
\* before: the record is active and its one Invoice creation is in flight
C13_Witness ==
    /\ IsWebhookAnswer(response) /\ response.code = 200
    /\ lastEvent.type = "charge.succeeded" /\ lastEvent.meta
    /\ Retrieve(lastEvent.sub).status = "incomplete"
    /\ subscription.status = "active"
    /\ subscription.paymentDate = DateNow /\ now > 1
    /\ pending = <<InvoiceTask(lastEvent.sub, PaymentReference(lastEvent))>>

RecoveryOps ==
    {"confirmPayment", "fixSubscriptionStatus", "forceActivateSubscription",
     "updateSubscriptionPaymentMethod"}

\* the step is a recovery request for a user whose stored status is active
IsRecoveryOfActive ==
    /\ response'.op \in RecoveryOps
    /\ HasSubscription /\ subscription.status = "active"

\* C14 (its part on the record): a recovery operation invoked when the stored
\* status is active leaves status, currentPeriodEnd, interval and
\* cancelAtPeriodEnd as they are.
C14_RecoveryOfActiveIsNoOp ==
    [][IsRecoveryOfActive => Fields(subscription') = Fields(subscription)]_vars

\* C15: after a second successful force-activate in a row the stored record
\* is the one the first call left (which is the record the second call
\* loaded), paymentDate included.
C15_ForceActivateTwiceSame ==
    (Len(requests) = 2
       /\ requests[1].op = "forceActivateSubscription"
       /\ requests[2].op = "forceActivateSubscription")
        => subscription = requests[2].loaded

\* the operations that write the cancel flag or the auto-debit preference
FlagOps ==
    {"setAutoDebit", "cancelSubscription", "resumeSubscription",
     "forceActivateSubscription", "handleWebhook"}

\* C16: after any of setAutoDebit, cancelSubscription, resumeSubscription,
\* forceActivateSubscription or a subscription.updated webhook has succeeded,
\* the auto-debit preference is false exactly when cancelAtPeriodEnd is true.
C16_AutoDebitInSync ==
    (HasSubscription /\ response.op \in FlagOps /\ response.code = 200)
        => (autoDebit = FALSE <=> subscription.cancelAtPeriodEnd = TRUE)

\* the outcomes of the send that are failures
FailedOutcomes == EmailOutcomes \ {"sent"}

\* the row of the invoice `id`
InvoiceRow(id, rows) == CHOOSE row \in rows : row.invoiceId = id

\* C17: whatever way the email send fails (error result, thrown exception,
\* unconfigured service), sendInvoice completes, the invoice row is still there
\* with emailSent false, and the stored subscription, the answer to the request
\* and the tasks in flight are as they were.
C17_EmailFailureStaysOnInvoice ==
    [][\A id \in mailing, outcome \in FailedOutcomes, saved \in BOOLEAN :
         /\ ENABLED SendInvoice(id, outcome, saved)
         /\ SendInvoice(id, outcome, saved)
              => /\ \E row \in invoices' : row.invoiceId = id
                 /\ ~InvoiceRow(id, invoices').emailSent
                 /\ Cardinality(invoices') = Cardinality(invoices)
                 /\ subscription' = subscription
                 /\ response' = response
                 /\ pending' = pending]_vars

\* a payment event has activated the subscription, its invoice has been
\* created, and the send of its email has ended without marking it sent
C17_Witness ==
    /\ lastEvent.type \in {"charge.succeeded", "payment_intent.succeeded"}
    /\ subscription.status = "active"
    /\ mailing = {}
    /\ waiting = NoWait
    /\ \E row \in invoices : ~row.emailSent

\* C18: a webhook request for a successful-payment event that starts the
\* invoice side effect is answered 200 in the step that starts it, with the
\* invoice not yet created and its email not yet sent: the answer waits for
\* neither, and stands if they never finish.
C18_AckDoesNotWaitForInvoice ==
    [][\A e \in emitted :
         (HandleWebhook(e, TRUE, "none", Absent) /\ Dispatch(e, subscription).tasks # <<>>)
            => /\ response'.code = 200
               /\ pending' = pending \o Dispatch(e, subscription).tasks
               /\ invoices' = invoices
               /\ mailing' = mailing]_vars

\* the paid-invoice event has been answered 200 while the invoice it asks for
\* is still to be created
C18_Witness ==
    /\ IsWebhookAnswer(response) /\ response.code = 200
    /\ lastEvent.type = "invoice.payment_succeeded"
    /\ Len(pending) = 1
    /\ pending[1].stripeInvoiceId = lastEvent.id
    /\ invoices = {}

\* the handlers that wait before a re-check
WaitingOps == {"confirmPayment", "updateSubscriptionPaymentMethod"}

\* C19: a handler in its wait leaves it by one step, its single re-check, and
\* that step answers the request; when the provider's record is still
\* incomplete at the re-check the answer reports status incomplete, not
\* active; and a handler in its wait always comes to that step.
C19_OneWaitOneRecheck ==
    /\ [][(waiting.pc = "waiting" /\ waiting' # waiting)
            => /\ waiting'.pc = "idle"
               /\ waiting'.rechecks = 1
               /\ response'.op = waiting.op
               /\ response'.code # Absent
               /\ (provider[subscription.id].status = "incomplete"
                     /\ response'.code # 500)
                    => (response'.status = "incomplete" /\ ~response'.isActive)]_vars
    /\ \A op \in WaitingOps :
         (waiting.pc = "waiting" /\ waiting.op = op)
            ~> (waiting.pc = "idle" /\ response.op = op /\ response.code # Absent)

\* a handler has waited, re-checked a subscription that was still incomplete
\* and answered
C19_Witness ==
    /\ waiting.pc = "idle" /\ waiting.rechecks = 1
    /\ waiting.held.status = "incomplete"
    /\ waiting.op \in WaitingOps
    /\ response.op = waiting.op
    /\ response.status = "incomplete"
    /\ provider[subscription.id].status = "incomplete"

\* the answers of fixSubscriptionStatus after it found a successful charge or
\* a successful payment intent that names the subscription
FoundPaymentAnswers ==
    {"Subscription is already active after successful charge",
     "Subscription activated - payment was successful",
     "Subscription fixed - payment was successful"}

\* C20: after fixSubscriptionStatus has found a successful charge or payment
\* intent of the subscription, the stored status is active and the stored
\* period end is the provider's when the provider has one, and otherwise the
\* time of the call plus 30 days (month) or 365 days (year).
C20_FixUsesProviderPeriodEnd ==
    (response.op = "fixSubscriptionStatus" /\ response.code = 200
        /\ response.body \in FoundPaymentAnswers)
        => LET p == Retrieve(subscription.id)
           IN  /\ subscription.status = "active"
               /\ subscription.currentPeriodEnd =
                    IF p.current_period_end # Absent
                    THEN DateOfEpoch(p.current_period_end)
                    ELSE subscription.paymentDate
                           + ValidityDays(PlanInterval(p)) * MsPerSec

\* C21: when getSubscriptionStatus reports isActive = true for the record and
\* cancelSubscription then succeeds, getSubscriptionStatus reports isActive =
\* true for the record the cancellation left.
C21_CancelKeepsUsable ==
    [][(response'.op = "cancelSubscription" /\ response'.code = 200
          /\ StatusView(subscription, Retrieve(subscription.id)).isActive)
         => StatusView(subscription', provider'[subscription.id]).isActive]_vars

\* the operations the user toggles renewal with
ToggleOps == {"cancelSubscription", "resumeSubscription", "setAutoDebit"}

\* the step is a successful call of the operation that succeeded last, with
\* the same argument (the value setAutoDebit was given is the stored
\* preference)
IsRepeatedToggle ==
    /\ response.op \in ToggleOps /\ response.code = 200
    /\ response'.op = response.op /\ response'.code = 200
    /\ autoDebit' = autoDebit

\* C22: a second successful call of cancelSubscription, resumeSubscription or
\* setAutoDebit with the same argument leaves the stored record and the
\* provider's cancel-at-period-end flag as the first call left them, and its
\* answer carries the subscription summary.
C22_TogglesAreIdempotent ==
    [][IsRepeatedToggle
         => /\ subscription' = subscription
            /\ provider'[subscription.id].cancel_at_period_end
                 = provider[subscription.id].cancel_at_period_end
            /\ response'.status # Unreported]_vars

\* the same without the summary: the records only
C22_TogglesKeepRecords ==
    [][IsRepeatedToggle
         => /\ subscription' = subscription
            /\ provider' = provider]_vars

\* C23: when stripe.subscriptions.retrieve fails, getSubscriptionStatus
\* answers 500 and the answer carries no status and no isActive taken from the
\* stored record.
C23_FailedLookupIsServiceError ==
    [][(HasSubscription /\ GetSubscriptionStatus("retrieve"))
         => /\ response'.code = 500
            /\ response'.status = Unreported
            /\ ~response'.isActive
            /\ response'.currentPeriodEnd = Absent]_vars

\* the lookup failed for a stored record that is active and has a period end
C23_Witness ==
    /\ stripe /\ HasSubscription
    /\ response.op = "getSubscriptionStatus" /\ response.code = 500
    /\ subscription.status = "active"
    /\ subscription.currentPeriodEnd # Absent

\* C24: a subscription for which the provider supplies no period end is stored
\* with currentPeriodEnd = now + 365 days (year) or now + 30 days (month), by
\* the create endpoint and by the subscription.created webhook alike.
C24_CreatedWithoutPeriodEndFallsBack ==
    [][/\ \A interval \in Intervals :
            (stripe /\ CreateSubscription(interval, Absent, "none"))
               => subscription'.currentPeriodEnd
                    = DateNow + ValidityDays(interval) * MsPerSec
       /\ \A e \in emitted :
            (/\ stripe /\ UserFound
             /\ e.type = "customer.subscription.created"
             /\ e.current_period_end = Absent
             /\ HandleWebhook(e, TRUE, "none", Absent))
               => subscription'.currentPeriodEnd
                    = DateNow + ValidityDays(PlanInterval(e)) * MsPerSec]_vars

\* the webhook half alone
C24_WebhookSeedFallsBack ==
    [][\A e \in emitted :
         (/\ stripe /\ UserFound
          /\ e.type = "customer.subscription.created"
          /\ e.current_period_end = Absent
          /\ HandleWebhook(e, TRUE, "none", Absent))
            => subscription'.currentPeriodEnd
                 = DateNow + ValidityDays(PlanInterval(e)) * MsPerSec]_vars

\* the details endpoint has answered with a countdown taken from a period end
DetailsAnswered ==
    /\ response.op = "getSubscriptionDetails" /\ response.code = 200
    /\ response.currentPeriodEnd # Absent

\* n is the number of whole days that cover the time from t to the instant
\* `end`, and 0 when `end` is not after t
IsDaysLeft(n, end, t) ==
    /\ n >= 0
    /\ n * MsPerSec >= end - t
    /\ n > 0 => (n - 1) * MsPerSec < end - t

\* the period end lies exactly `days` days after the time of the request
EndsIn(days) == response.expiryDate - response.at = days * MsPerSec

\* C25: remainingDays is the whole days left to the period end, rounded up
\* and never below 0; validityStatus is good above 7 days, warning for 4 to 7,
\* critical for 1 to 3, expired for 0; period ends 8, 5, 2 and -1 days from
\* now give good, warning, critical and expired with 0 days.
C25_CountdownBoundaries ==
    DetailsAnswered
        => /\ IsDaysLeft(response.remainingDays, response.expiryDate, response.at)
           /\ response.validityStatus =
                CASE response.remainingDays > 7 -> "good"
                  [] response.remainingDays \in 4 .. 7 -> "warning"
                  [] response.remainingDays \in 1 .. 3 -> "critical"
                  [] response.remainingDays = 0 -> "expired"
           /\ EndsIn(8) => response.validityStatus = "good"
           /\ EndsIn(5) => response.validityStatus = "warning"
           /\ EndsIn(2) => response.validityStatus = "critical"
           /\ EndsIn(-1) => (response.validityStatus = "expired"
                               /\ response.remainingDays = 0)

\* a request one millisecond into the day, 7 days and a bit less before the
\* period end: the part of a day counts as a day
C25_Witness ==
    /\ DetailsAnswered
    /\ response.expiryDate - response.at = 7 * MsPerSec - 1
    /\ response.remainingDays = 7
    /\ response.validityStatus = "warning"

\* C26: a force-activate whose lookup and save succeed stores status active
\* and cancelAtPeriodEnd false and answers 200, whatever status the provider
\* holds and also when the provider update that clears the flag fails.
C26_ForceActivateIsUnconditional ==
    [][\A fault \in {"none", "update"} :
         (stripe /\ HasSubscription /\ ForceActivate(subscription, fault))
            => /\ subscription'.status = "active"
               /\ ~subscription'.cancelAtPeriodEnd
               /\ response'.code = 200
               /\ response'.status = "active" /\ response'.isActive]_vars

\* the call succeeded for a subscription the provider holds as canceled, with
\* the provider's flag still set: the update that clears it had failed
C26_Witness ==
    /\ response.op = "forceActivateSubscription" /\ response.code = 200
    /\ subscription.status = "active" /\ ~subscription.cancelAtPeriodEnd
    /\ Retrieve(subscription.id).status = "canceled"
    /\ Retrieve(subscription.id).cancel_at_period_end

\* C27: a verified event whose type the switch has no case for is answered
\* 200, leaves the subscription record as it was and starts no invoice.
C27_UnrecognizedIsAcknowledged ==
    [][\A e \in emitted :
         (e.type \notin RecognizedTypes /\ HandleWebhook(e, TRUE, "none", Absent))
            => /\ response'.code = 200
               /\ UNCHANGED <<subscription, invoices, pending>>]_vars

\* an event of an unrecognized type was acknowledged while the stored record
\* differs from what the provider holds and no invoice exists or is on its way
C27_Witness ==
    /\ response.op = "handleWebhook" /\ response.code = 200
    /\ lastEvent.type = "invoice.paid"
    /\ subscription.status = "incomplete" /\ Retrieve(1).status = "active"
    /\ invoices = {} /\ pending = <<>>

\* C28: getSubscriptionStatus for a user who has no record, or whose record
\* has no external id, answers with status none and isActive false.
C28_NoRecordReportsNone ==
    [][(stripe /\ ~HasSubscription /\ \E fault \in Faults3 : GetSubscriptionStatus(fault))
         => /\ response'.code = 200
            /\ response'.status = "none"
            /\ ~response'.isActive]_vars

\* C29: a verified invoice.payment_succeeded, invoice.payment_failed,
\* customer.subscription.updated or customer.subscription.deleted event whose
\* subscription id is not the stored record's id (another subscription of the
\* same customer, or an invoice of no subscription) leaves the stored status
\* and currentPeriodEnd as they were.
C29_OnlyOwnSubscriptionEventsWrite ==
    [][\A e \in emitted :
         (/\ e.sub # subscription.id
          /\ e.type \in {"invoice.payment_succeeded", "invoice.payment_failed",
                         "customer.subscription.updated", "customer.subscription.deleted"}
          /\ HandleWebhook(e, TRUE, "none", Absent))
            => /\ subscription'.status = subscription.status
               /\ subscription'.currentPeriodEnd = subscription.currentPeriodEnd]_vars

\* C30: a getSubscriptionStatus that directly follows the createSubscription
\* that stored the provider's period end P answers currentPeriodEnd = P.
C30_CreatedPeriodEndReadBack ==
    [][(/\ response.op = "createSubscription" /\ response.code = 200
        /\ GetSubscriptionStatus("none"))
         => /\ response'.code = 200
            /\ response'.currentPeriodEnd
                 = Retrieve(subscription.id).current_period_end]_vars

IsIdlePayment(e) ==
    \/ e.type \in {"payment_intent.succeeded", "charge.succeeded"} /\ ~e.meta
    \/ e.type = "payment_intent.succeeded" /\ e.meta
         /\ ~IsActiveStatus(Retrieve(e.sub).status)

\* C32: a verified payment_intent.succeeded or charge.succeeded event without
\* a subscription id in its metadata, and a payment_intent.succeeded event
\* whose re-fetched subscription is neither active nor trialing, leaves the
\* subscription record as it was and starts no invoice.
C32_IdlePaymentChangesNothing ==
    [][\A e \in emitted :
         (IsIdlePayment(e) /\ HandleWebhook(e, TRUE, "none", Absent))
            => UNCHANGED <<subscription, invoices, pending>>]_vars

\* a payment intent tagged with the subscription was acknowledged while the
\* provider holds the subscription as incomplete: the stored record still
\* differs from an activated one and no invoice exists or is on its way
C32_Witness ==
    /\ response.op = "handleWebhook" /\ response.code = 200
    /\ lastEvent.type = "payment_intent.succeeded" /\ lastEvent.meta
    /\ Retrieve(lastEvent.sub).status = "incomplete"
    /\ subscription.status = "incomplete"
    /\ invoices = {} /\ pending = <<>>

\* C33: a verified invoice.payment_failed event sets the stored status to
\* past_due, leaves every other field of the record as it was and starts no
\* invoice.
C33_PaymentFailedOnlySetsPastDue ==
    [][\A e \in emitted :
         (e.type = "invoice.payment_failed" /\ HandleWebhook(e, TRUE, "none", Absent))
            => /\ subscription' = [subscription EXCEPT !.status = "past_due"]
               /\ UNCHANGED <<invoices, pending>>]_vars

\* the event was acknowledged for a record that had a period end: the record
\* is past due, still has the period end, and no invoice exists or is on its way
C33_Witness ==
    /\ response.op = "handleWebhook" /\ response.code = 200
    /\ lastEvent.type = "invoice.payment_failed"
    /\ subscription.status = "past_due"
    /\ subscription.currentPeriodEnd = DateOfEpoch(1)
    /\ subscription.id = 1
    /\ invoices = {} /\ pending = <<>>

\* C34: the stored subscription record never has the status expired, whatever
\* endpoint, webhook case or recovery operation wrote it.
C34_ExpiredIsNeverStored == subscription.status # "expired"

\* the status endpoint answered expired for a record stored as active
C34_Witness ==
    /\ response.op = "getSubscriptionStatus" /\ response.code = 200
    /\ response.status = "expired"
    /\ subscription.status = "active"

\* C35: every invoice row stays in the table with all its fields but
\* emailSent as they were, and an emailSent that is true stays true, through
\* every step, a failed resendInvoice included.
C35_InvoiceRowsOnlyGainEmailSent ==
    [][\A row \in invoices :
         \E kept \in invoices' :
            /\ kept.invoiceId = row.invoiceId
            /\ [kept EXCEPT !.emailSent = row.emailSent] = row
            /\ row.emailSent => kept.emailSent]_vars

\* a resend failed for the only row, whose email had been sent: it is still
\* marked as sent
C35_Witness ==
    /\ response.op = "resendInvoice" /\ response.code = 500
    /\ Cardinality(invoices) = 1
    /\ \A row \in invoices : row.emailSent

\* C36: a verified event that is answered 200 has had its write saved: the
\* stored record is the one the event's case of the switch leaves, also when
\* a call the case awaits may reject.
C36_AcknowledgedMeansSaved ==
    [][\A e \in emitted, fault \in Faults, unhandled \in {Absent, 500} :
         (HandleWebhook(e, TRUE, fault, unhandled) /\ response'.code = 200)
            => subscription' = Dispatch(e, subscription).subscription]_vars

\* an invoice.payment_succeeded event was acknowledged for a record that was
\* incomplete: the record is stored as active with the invoice's period end
C36_Witness ==
    /\ response.op = "handleWebhook" /\ response.code = 200
    /\ lastEvent.type = "invoice.payment_succeeded"
    /\ subscription.status = "active"
    /\ subscription.currentPeriodEnd = DateOfEpoch(MaxNow)
    /\ Retrieve(1).status = "incomplete"

\* C37: a setAutoDebit whose provider update fails answers 500 and leaves the
\* stored preference, the stored record and the provider's record as they
\* were.
C37_FailedSyncPersistsNothing ==
    [][\A value \in BOOLEAN :
         (stripe /\ HasSubscription /\ SetAutoDebit(TRUE, value, "update"))
            => /\ response'.code = 500
               /\ UNCHANGED <<autoDebit, subscription, provider>>]_vars

\* the provider update failed for a user with auto-debit on: the preference is
\* still on and neither record is set to cancel at the period end
C37_Witness ==
    /\ response.op = "setAutoDebit" /\ response.code = 500
    /\ response.body = "Failed to sync auto-debit with Stripe"
    /\ autoDebit /\ ~subscription.cancelAtPeriodEnd
    /\ ~Retrieve(subscription.id).cancel_at_period_end

\* C38: a step that answers getSubscriptionStatus or getSubscriptionDetails
\* leaves the stored record, the stored preference and customer id, the
\* invoice rows and the tasks that create them, and the provider's records
\* and events as they were.
C38_ReadsAreReadOnly ==
    [][response'.op \in {"getSubscriptionStatus", "getSubscriptionDetails"}
         => UNCHANGED <<subscription, autoDebit, customerId, invoices, pending, mailing,
                        provider, emitted>>]_vars

\* the details endpoint answered with the provider's canceled status for a
\* record stored as active: the record is still stored as active
C38_Witness ==
    /\ response.op = "getSubscriptionDetails" /\ response.code = 200
    /\ response.status = "canceled"
    /\ subscription.status = "active"
    /\ emitted = {}

\* C39: at most one row of the plans table has isDefault set, in every state
\* the calls of createSubscriptionPlan and setDefaultSubscriptionPlan reach,
\* in any order and interleaving.
C39_AtMostOneDefault == Cardinality({row \in plans : row.isDefault}) <= 1

====
